---------------------------- MODULE Spec2Model ----------------------------
(***************************************************************************)
(* Storm monitor: intensity classifier, label cleaning, uncertainty-cone   *)
(* builder and the intercept-and-alert run (src/app_functions.py,          *)
(* src/intercept_and_alert_V3.py, src/app.py).                             *)
(*                                                                         *)
(* Results of function calls are kept as sequences: <<>> before the call,  *)
(* <<r>> after it returned r.                                              *)
(***************************************************************************)
EXTENDS Integers, Sequences, FiniteSets, TLC

VARIABLES
    wind_speed,     \* argument of wind_speed_to_category
    category,       \* <<>> or <<[name, number]>>: its return value
    label,          \* argument of clean_strings.process_string (characters)
    cleaned,        \* <<>> or <<the cleaned label>>
    storm_dat,      \* argument of create_uncertainty_cone: a track at one timestamp
    cone_call,      \* <<>> or <<the outcome of create_uncertainty_cone(storm_dat)>>
    radius_basin,   \* arguments of get_radius: basin
    radius_hour,    \*   and forecast_hour
    radius,         \* <<>> or <<its return value>>, itself <<>> for None
    central_pressure,   \* argument of pressure_to_category
    pressure_category,  \* <<>> or <<[name, number]>>: its return value
    df_row,         \* <<>> or <<a parsed forecast point with its categories>>
    coord_field,    \* argument of parse_lat_lon
    coord,          \* <<>> or <<its return value>>, itself <<>> for None
    dat_file,       \* the lines of an a-deck file given to read_adeck_dat_file_to_gdf
    parsed_gdf,     \* <<>> or <<the outcome of the parse>>
    name_lines,     \* the a-deck lines extract_storm_info reads
    storm_name,     \* <<>> or <<the name it infers>>
    csv_rows,       \* the storm directory get_recent_adeck_paths reads
    csv_timestamp,  \* its timestamp_utc argument
    recent_storms,  \* <<>> or <<the rows it returns>>
    clock,          \* the time main's timestamp adjustment starts from
    adjusted,       \* <<>> or <<the adjusted timestamp_utc>>
    storm_csv,      \* the storm directory download_and_update_storm_data maintains
    upsert_calls,   \* how many calls were made
    last_upsert,    \* the last call and what it did
    token_json,     \* get_gmail_service: what is at token_path
    creds,          \* its local creds: <<>> for None, else <<credentials>>
    gmail_pc,       \* where get_gmail_service is
    gmail_calls,    \* calls of get_gmail_service begun so far
    service,        \* <<>>, or <<the credentials the service was built with>>
    variant,        \* which main runs: "V3" (intercept_and_alert_V3.py) or "app" (app.py)
    inputs,         \* what the run finds on disk: portfolio, storm directory, faults
    pc,             \* where main is
    loop_i,         \* rows the current loop has consumed
    AOIs,           \* the portfolio frame
    recent_adeck_paths, \* the active storms, 'Invest' removed
    cones,          \* the cones frame (rows)
    error_msgs,     \* the per-storm error messages
    error_data,     \* the storms whose data is attached to the errors report
    intercepts,     \* the intercepts frame (rows)
    affected_clients,   \* <<>> while the local is unbound, else <<the list>>
    exception,      \* what main's outer handler caught
    sent            \* the reports handed to the mail transport, with the outcome

classifierVars == <<wind_speed, category>>
cleanVars == <<label, cleaned>>
coneVars == <<storm_dat, cone_call>>
radiusVars == <<radius_basin, radius_hour, radius>>
pressureVars == <<central_pressure, pressure_category>>
coordVars == <<coord_field, coord>>
parseVars == <<dat_file, parsed_gdf>>
nameVars == <<name_lines, storm_name>>
recentVars == <<csv_rows, csv_timestamp, recent_storms>>
timeVars == <<clock, adjusted>>
upsertVars == <<storm_csv, upsert_calls, last_upsert>>
gmailVars == <<token_json, creds, gmail_pc, gmail_calls, service>>
laterVars == <<coordVars, parseVars, nameVars, recentVars, timeVars, upsertVars, gmailVars>>
pureVars == <<wind_speed, category, label, cleaned, storm_dat, cone_call,
              radius_basin, radius_hour, radius, central_pressure, pressure_category,
              df_row, laterVars>>
earlierVars == <<wind_speed, category, label, cleaned, storm_dat, cone_call,
                 radius_basin, radius_hour, radius, central_pressure, pressure_category,
                 df_row>>
runVars == <<variant, inputs, pc, loop_i, AOIs, recent_adeck_paths, cones, error_msgs,
             error_data, intercepts, affected_clients, exception, sent>>

(***************************************************************************)
(* Intensity classifier                                                    *)
(***************************************************************************)

\* Largest wind speed (knots) the classifier is applied to.
MaxWind == 150

\* ws_categories: (lower_bound, upper_bound, category_name, category_number);
\* the last row's upper bound is float('inf').
ws_categories ==
    << [lower_bound |-> 0,   upper_bound |-> 34,  unbounded |-> FALSE,
        category_name |-> "Tropical Depression", category_number |-> -1],
       [lower_bound |-> 34,  upper_bound |-> 63,  unbounded |-> FALSE,
        category_name |-> "Tropical Storm",      category_number |-> 0],
       [lower_bound |-> 64,  upper_bound |-> 82,  unbounded |-> FALSE,
        category_name |-> "Category 1",          category_number |-> 1],
       [lower_bound |-> 83,  upper_bound |-> 95,  unbounded |-> FALSE,
        category_name |-> "Category 2",          category_number |-> 2],
       [lower_bound |-> 96,  upper_bound |-> 112, unbounded |-> FALSE,
        category_name |-> "Category 3",          category_number |-> 3],
       [lower_bound |-> 113, upper_bound |-> 136, unbounded |-> FALSE,
        category_name |-> "Category 4",          category_number |-> 4],
       [lower_bound |-> 137, upper_bound |-> 0,   unbounded |-> TRUE,
        category_name |-> "Category 5",          category_number |-> 5] >>

\* The row test of wind_speed_to_category: lower_bound <= wind_speed < upper_bound.
InWindRow(row, w) ==
    /\ row.lower_bound <= w
    /\ (row.unbounded \/ w < row.upper_bound)

\* wind_speed_to_category: the first row of ws_categories that holds the
\* wind speed, else ('Unknown', -999).
wind_speed_to_category(w) ==
    LET hits == { i \in 1..Len(ws_categories) : InWindRow(ws_categories[i], w) }
    IN  IF hits = {}
        THEN [name |-> "Unknown", number |-> -999]
        ELSE LET i == CHOOSE j \in hits : \A k \in hits : j <= k
             IN  [name |-> ws_categories[i].category_name,
                  number |-> ws_categories[i].category_number]

\* Pressures (millibars) the classifier is applied to: from PressureBelowZero
\* below zero up to MaxPressure.
PressureBelowZero == 3
MaxPressure == 1050
Pressures == (0 - PressureBelowZero)..MaxPressure

\* cp_categories: (upper_bound, lower_bound, category_name, category_number);
\* the first row's upper bound is np.inf.
cp_categories ==
    << [upper_bound |-> 0,   unbounded |-> TRUE,  lower_bound |-> 990,
        category_name |-> "Tropical Storm", category_number |-> 0],
       [upper_bound |-> 990, unbounded |-> FALSE, lower_bound |-> 980,
        category_name |-> "Category 1",     category_number |-> 1],
       [upper_bound |-> 980, unbounded |-> FALSE, lower_bound |-> 965,
        category_name |-> "Category 2",     category_number |-> 2],
       [upper_bound |-> 965, unbounded |-> FALSE, lower_bound |-> 945,
        category_name |-> "Category 3",     category_number |-> 3],
       [upper_bound |-> 945, unbounded |-> FALSE, lower_bound |-> 920,
        category_name |-> "Category 4",     category_number |-> 4],
       [upper_bound |-> 920, unbounded |-> FALSE, lower_bound |-> 0,
        category_name |-> "Category 5",     category_number |-> 5] >>

\* The row test of pressure_to_category: upper_bound > central_pressure >= lower_bound.
InPressureRow(row, p) ==
    /\ (row.unbounded \/ row.upper_bound > p)
    /\ p >= row.lower_bound

\* The loop of pressure_to_category, given the rows whose test passes: the
\* first of them is returned, ('Unknown', -999) when there is none.
FirstPressureRow(hits) ==
    IF hits = {}
    THEN [name |-> "Unknown", number |-> -999]
    ELSE LET i == CHOOSE j \in hits : \A k \in hits : j <= k
         IN  [name |-> cp_categories[i].category_name,
              number |-> cp_categories[i].category_number]

\* pressure_to_category whose last row has no lower bound.
pressure_to_category_no_floor(p) ==
    FirstPressureRow({ i \in 1..Len(cp_categories) :
        /\ (cp_categories[i].unbounded \/ cp_categories[i].upper_bound > p)
        /\ (p >= cp_categories[i].lower_bound \/ cp_categories[i].lower_bound = 0) })

\* pressure_to_category with the bounds closed on the other side:
\* upper_bound >= central_pressure > lower_bound.
pressure_to_category_upper_closed(p) ==
    FirstPressureRow({ i \in 1..Len(cp_categories) :
        /\ (cp_categories[i].unbounded \/ cp_categories[i].upper_bound >= p)
        /\ p > cp_categories[i].lower_bound })

\* pressure_to_category
pressure_to_category(p) ==
    FirstPressureRow({ i \in 1..Len(cp_categories) : InPressureRow(cp_categories[i], p) })

\* DataFrame.max(axis=1) that returns the first column.
row_max_first(a, b) == a

\* DataFrame.max(axis=1) over two numeric columns.
row_max(a, b) == IF a >= b THEN a ELSE b

\* A record of the parsed table before its categories are set.  MinPressure
\* is <<p>>, or <<>> for NaN (the field is missing: it is not among the
\* columns whose missing values drop the row).
ParsedRow(max_wind_speed, min_pressure) ==
    [MaxWindSpeed |-> max_wind_speed, MinPressure |-> min_pressure,
     categorized |-> FALSE,
     Category_based_on_pressure |-> "", Category_number_pressure_based |-> 0,
     Category_based_on_windspeed |-> "", Category_number_windspeed_based |-> 0,
     maximum_category |-> 0, Category |-> ""]

\* Lines 587-600 of read_adeck_dat_file_to_gdf on one row: both categories,
\* their maximum, and the displayed Category.  Every comparison with NaN is
\* false, so a NaN pressure matches no row of cp_categories.
categorize(row) ==
    LET by_pressure == IF row.MinPressure = <<>>
                       THEN [name |-> "Unknown", number |-> -999]
                       ELSE pressure_to_category(row.MinPressure[1])
        by_wind == wind_speed_to_category(row.MaxWindSpeed)
    IN  [row EXCEPT !.categorized = TRUE,
                    !.Category_based_on_pressure = by_pressure.name,
                    !.Category_number_pressure_based = by_pressure.number,
                    !.Category_based_on_windspeed = by_wind.name,
                    !.Category_number_windspeed_based = by_wind.number,
                    !.maximum_category = row_max(by_wind.number, by_pressure.number),
                    !.Category = by_wind.name]

(***************************************************************************)
(* Label cleaning (clean_strings.process_string)                           *)
(***************************************************************************)

\* Longest generated label, in characters.
MaxLabelLen == 5

Digits == {"0", "1", "2", "3", "4", "5", "6", "7", "8", "9"}
Whitespace == {" "}

\* The characters generated labels are made of: a letter, a digit, a blank.
LabelChars == {"a", "1", " "}

\* "Miami Office 12B Annex"
MiamiLabel ==
    << "M", "i", "a", "m", "i", " ", "O", "f", "f", "i", "c", "e", " ",
       "1", "2", "B", " ", "A", "n", "n", "e", "x" >>

\* The sequences over S of length at most n.
SeqsUpTo(S, n) == UNION { [1..k -> S] : k \in 0..n }

Labels == SeqsUpTo(LabelChars, MaxLabelLen) \cup { MiamiLabel }

\* str.split(): the maximal runs of non-whitespace characters, in order.
RECURSIVE SplitFrom(_, _, _)
SplitFrom(s, i, word) ==
    IF i > Len(s)
    THEN IF word = <<>> THEN <<>> ELSE << word >>
    ELSE IF s[i] \in Whitespace
         THEN IF word = <<>>
              THEN SplitFrom(s, i + 1, <<>>)
              ELSE << word >> \o SplitFrom(s, i + 1, <<>>)
         ELSE SplitFrom(s, i + 1, Append(word, s[i]))

split(s) == SplitFrom(s, 1, <<>>)

\* any(char.isdigit() for char in word)
HasDigit(word) == \E i \in 1..Len(word) : word[i] \in Digits

\* ' '.join(words)
RECURSIVE join(_)
join(words) ==
    IF words = <<>> THEN <<>>
    ELSE IF Len(words) = 1 THEN words[1]
    ELSE words[1] \o << " " >> \o join(Tail(words))

\* str.strip(): without leading and trailing whitespace.
RECURSIVE strip(_)
strip(s) ==
    IF s = <<>> THEN s
    ELSE IF s[1] \in Whitespace THEN strip(Tail(s))
    ELSE IF s[Len(s)] \in Whitespace THEN strip(SubSeq(s, 1, Len(s) - 1))
    ELSE s

\* CleanLoop without the break: a later word with a digit is skipped and the
\* loop goes on.
RECURSIVE CleanLoopNoBreak(_, _, _)
CleanLoopNoBreak(words, i, cleaned_words) ==
    IF i > Len(words) THEN cleaned_words
    ELSE IF i = 1 \/ ~HasDigit(words[i])
         THEN CleanLoopNoBreak(words, i + 1, Append(cleaned_words, words[i]))
         ELSE CleanLoopNoBreak(words, i + 1, cleaned_words)

\* CleanLoop that enumerates from the wrong word: the first word is not
\* kept and the second is the one that is always kept.
RECURSIVE CleanLoopSkipFirst(_, _, _)
CleanLoopSkipFirst(words, i, cleaned_words) ==
    IF i > Len(words) THEN cleaned_words
    ELSE IF i = 1 THEN CleanLoopSkipFirst(words, 2, cleaned_words)
    ELSE IF i = 2 THEN CleanLoopSkipFirst(words, 3, Append(cleaned_words, words[2]))
    ELSE IF HasDigit(words[i]) THEN cleaned_words
    ELSE CleanLoopSkipFirst(words, i + 1, Append(cleaned_words, words[i]))

\* CleanLoop that tests the first word like the others.
RECURSIVE CleanLoopFirstChecked(_, _, _)
CleanLoopFirstChecked(words, i, cleaned_words) ==
    IF i > Len(words) THEN cleaned_words
    ELSE IF HasDigit(words[i]) THEN cleaned_words
    ELSE CleanLoopFirstChecked(words, i + 1, Append(cleaned_words, words[i]))

\* The loop of process_string from word i on: the first word is always kept,
\* a later word with a digit ends the loop (break).
RECURSIVE CleanLoop(_, _, _)
CleanLoop(words, i, cleaned_words) ==
    IF i > Len(words) THEN cleaned_words
    ELSE IF i = 1 THEN CleanLoop(words, i + 1, Append(cleaned_words, words[i]))
    ELSE IF HasDigit(words[i]) THEN cleaned_words
    ELSE CleanLoop(words, i + 1, Append(cleaned_words, words[i]))

process_string(s) == strip(join(CleanLoop(split(s), 1, <<>>)))

(***************************************************************************)
(* Coordinate fields (parse_lat_lon)                                       *)
(***************************************************************************)

\* Longest generated coordinate field, in characters.
MaxFieldLen == 4

Directions == {"N", "S", "E", "W"}

\* The characters generated fields are made of, and two fields with the
\* suffix E.
CoordChars == {"0", "1", "-", " ", "N", "S", "W"}
EastFields == { << "1", "0", "E" >>, << "-", "1", "E" >> }

\* The value of a run of decimal digits.
RECURSIVE DigitsValue(_)
DigitsValue(s) ==
    IF s = <<>> THEN 0
    ELSE 10 * DigitsValue(SubSeq(s, 1, Len(s) - 1))
         + (CHOOSE d \in 0..9 : ToString(d) = s[Len(s)])

\* float(s) for text of blanks, signs and digits: <<the number>>, or <<>>
\* for ValueError.  Surrounding whitespace is ignored; what is left must be
\* an optional sign and at least one digit.
float(s) ==
    LET t == strip(s)
        signed == t # <<>> /\ t[1] \in {"-", "+"}
        digits == IF signed THEN Tail(t) ELSE t
    IN  IF digits = <<>> \/ \E i \in 1..Len(digits) : digits[i] \notin Digits
        THEN <<>>
        ELSE << IF signed /\ t[1] = "-" THEN 0 - DigitsValue(digits)
                ELSE DigitsValue(digits) >>

\* tenths / 10.0 as a decimal: sign, whole degrees and one decimal digit.
TenthsToDegrees(tenths) ==
    LET magnitude == IF tenths < 0 THEN 0 - tenths ELSE tenths
    IN  [negative |-> tenths < 0, whole |-> magnitude \div 10, tenth |-> magnitude % 10]

\* parse_lat_lon that ignores the direction.
parse_lat_lon_unsigned(value) ==
    IF ~value.is_str THEN <<>>
    ELSE LET v == strip(value.text)
         IN  IF v = <<>> THEN <<>>
             ELSE LET number == float(IF v[Len(v)] \in Directions
                                      THEN SubSeq(v, 1, Len(v) - 1) ELSE v)
                  IN  IF number = <<>> THEN <<>>
                      ELSE << TenthsToDegrees(number[1]) >>

\* parse_lat_lon: <<degrees>>, or <<>> for None.  value.is_str is FALSE for
\* a value that is not text.
parse_lat_lon(value) ==
    IF ~value.is_str THEN <<>>
    ELSE LET v == strip(value.text)
         IN  IF v # <<>> /\ v[Len(v)] \in Directions
             THEN LET direction == v[Len(v)]
                      number == float(SubSeq(v, 1, Len(v) - 1))
                  IN  IF number = <<>> THEN <<>>
                      ELSE IF direction \in {"S", "W"}
                           THEN << TenthsToDegrees(0 - number[1]) >>
                           ELSE << TenthsToDegrees(number[1]) >>
             ELSE IF v # <<>>
             THEN LET number == float(v)
                  IN  IF number = <<>> THEN <<>> ELSE << TenthsToDegrees(number[1]) >>
             ELSE <<>>

\* The values parse_lat_lon is applied to: text, and a value that is not.
Text(chars) == [is_str |-> TRUE, text |-> chars]
NotText == [is_str |-> FALSE, text |-> <<>>]

(***************************************************************************)
(* The a-deck parser (read_adeck_dat_file_to_gdf)                          *)
(***************************************************************************)

\* Most records of a generated file.
MaxRecords == 2

\* A numeric field of a line as read: a number, text that is no number, or
\* the empty string.
Number(n) == [kind |-> "number", value |-> n]
NotANumber == [kind |-> "text", value |-> 0]
EmptyField == [kind |-> "empty", value |-> 0]

\* A record with every field well formed: 1.0N 1.0W, 50 kt, 12 h, 1000 mb.
GoodRecord ==
    [Latitude |-> << "1", "0", "N" >>, Longitude |-> << "1", "0", "W" >>,
     MaxWindSpeed |-> Number(50), ForecastHour |-> Number(12),
     DateTime |-> "valid", MinPressure |-> Number(1000)]

\* The records files are made of: the good record, and the good record with
\* one field changed.
RawRecords ==
    {GoodRecord}
    \cup { [GoodRecord EXCEPT !.Latitude = t] :
             t \in { << "0", "N" >>, << "N" >>, <<>>, << "1", "0" >>, << "1", "S" >> } }
    \cup { [GoodRecord EXCEPT !.Longitude = t] :
             t \in { << "0", "W" >>, << "-", "W" >>, <<>> } }
    \cup { [GoodRecord EXCEPT !.MaxWindSpeed = f] : f \in { NotANumber, EmptyField, Number(100) } }
    \cup { [GoodRecord EXCEPT !.ForecastHour = f] :
             f \in { NotANumber, EmptyField, Number(0), Number(0 - 12) } }
    \cup { [GoodRecord EXCEPT !.DateTime = "invalid"] }
    \cup { [GoodRecord EXCEPT !.MinPressure = f] : f \in { NotANumber, EmptyField, Number(950) } }

\* pd.to_numeric(column) succeeds: every value is a number or empty.
to_numeric_succeeds(fields) == \A i \in 1..Len(fields) : fields[i].kind # "text"

\* The same for a column of coordinate text.
to_numeric_succeeds_text(texts) ==
    \A i \in 1..Len(texts) : strip(texts[i]) = <<>> \/ float(texts[i]) # <<>>

\* pd.to_numeric(value, errors='coerce'): <<n>>, or <<>> for NaN.
to_numeric_coerce(field) == IF field.kind = "number" THEN << field.value >> ELSE <<>>

\* The indices of 1..n that satisfy Keep, in order.
RECURSIVE FilterIndices(_, _)
FilterIndices(indices, keep) ==
    IF indices = <<>> THEN <<>>
    ELSE IF Head(indices) \in keep
         THEN << Head(indices) >> \o FilterIndices(Tail(indices), keep)
         ELSE FilterIndices(Tail(indices), keep)

ZeroDegrees == TenthsToDegrees(0)

\* read_adeck_dat_file_to_gdf on the records of a file, without a forecast
\* datetime filter.  outcome is "gdf" (rows returned), "None", or
\* "TypeError" (raised by pressure_to_category on a text value).
read_adeck_dat_file_to_gdf(file) ==
    LET n == Len(file)
        column(name) == [i \in 1..n |-> file[i][name]]
        \* lines 524-536: a column that converts to numeric is no longer text
        latitude_is_text == ~to_numeric_succeeds_text(column("Latitude"))
        longitude_is_text == ~to_numeric_succeeds_text(column("Longitude"))
        pressure_is_text == ~to_numeric_succeeds(column("MinPressure"))
        \* lines 545-550
        ForecastHour(i) == to_numeric_coerce(file[i].ForecastHour)
        MaxWindSpeed(i) == to_numeric_coerce(file[i].MaxWindSpeed)
        Latitude(i) == parse_lat_lon(IF latitude_is_text THEN Text(file[i].Latitude)
                                     ELSE NotText)
        Longitude(i) == parse_lat_lon(IF longitude_is_text THEN Text(file[i].Longitude)
                                      ELSE NotText)
        \* line 559
        after_dropna ==
            { i \in 1..n : /\ Latitude(i) # <<>> /\ Longitude(i) # <<>>
                           /\ MaxWindSpeed(i) # <<>> /\ file[i].DateTime = "valid"
                           /\ ForecastHour(i) # <<>> }
        \* line 571
        after_zero_filter ==
            { i \in after_dropna : Latitude(i)[1] # ZeroDegrees /\ Longitude(i)[1] # ZeroDegrees }
        kept == FilterIndices([i \in 1..n |-> i], after_zero_filter)
        Row(i) == [index |-> i, ForecastHour |-> ForecastHour(i)[1],
                   Latitude |-> Latitude(i)[1], Longitude |-> Longitude(i)[1],
                   categories |-> categorize(ParsedRow(MaxWindSpeed(i)[1],
                                                       to_numeric_coerce(file[i].MinPressure)))]
    IN  IF n = 0 \/ after_dropna = {} \/ after_zero_filter = {}
        THEN [outcome |-> "None", rows |-> <<>>]
        ELSE IF pressure_is_text
        THEN [outcome |-> "TypeError", rows |-> <<>>]
        ELSE [outcome |-> "gdf", rows |-> [k \in 1..Len(kept) |-> Row(kept[k])]]

(***************************************************************************)
(* Storm name inference (extract_storm_info)                               *)
(***************************************************************************)

\* Most lines of a generated file.
MaxLines == 3

UpperCase == << "A", "B", "C", "D", "E", "F", "G", "H", "I", "J", "K", "L", "M",
                "N", "O", "P", "Q", "R", "S", "T", "U", "V", "W", "X", "Y", "Z" >>
LowerCase == << "a", "b", "c", "d", "e", "f", "g", "h", "i", "j", "k", "l", "m",
                "n", "o", "p", "q", "r", "s", "t", "u", "v", "w", "x", "y", "z" >>

IsUpper(c) == \E i \in 1..26 : UpperCase[i] = c
IsLower(c) == \E i \in 1..26 : LowerCase[i] = c
ToUpper(c) == IF IsLower(c) THEN UpperCase[CHOOSE i \in 1..26 : LowerCase[i] = c] ELSE c
ToLower(c) == IF IsUpper(c) THEN LowerCase[CHOOSE i \in 1..26 : UpperCase[i] = c] ELSE c

\* str.upper(), str.isalpha(), str.endswith() and str.title() on text given
\* as a tuple of characters.
upper(s) == [i \in 1..Len(s) |-> ToUpper(s[i])]
isalpha(s) == s # <<>> /\ \A i \in 1..Len(s) : IsUpper(s[i]) \/ IsLower(s[i])
endswith(s, suffix) ==
    Len(s) >= Len(suffix) /\ SubSeq(s, Len(s) - Len(suffix) + 1, Len(s)) = suffix
title(s) ==
    [i \in 1..Len(s) |->
        IF i = 1 \/ ~(IsUpper(s[i - 1]) \/ IsLower(s[i - 1]))
        THEN ToUpper(s[i]) ELSE ToLower(s[i])]

basin_codes == << << "A", "L" >>, << "E", "P" >>, << "C", "P" >>,
                  << "W", "P" >>, << "I", "O" >>, << "S", "H" >> >>

INVEST == << "I", "N", "V", "E", "S", "T" >>
DISTURBANCE == << "D", "I", "S", "T", "U", "R", "B", "A", "N", "C", "E" >>

\* The number words among the generated tokens.
number_words_set == { << "T", "W", "O" >> }

\* The 28th column of a line as generated; <<>> is a line with fewer columns.
NameTokens ==
    { << "A", "N", "A" >>, << "a", "n", "a" >>, << "A", "N", "A", "A", "L" >>,
      << "B", "O", "B" >>, << "A", "L" >>, << "T", "W", "O" >>, << "A", "2" >>,
      INVEST, <<>> }

\* The keys of storm_name_dict in insertion order, and its counts.
RECURSIVE DictKeys(_)
DictKeys(lines) ==
    IF lines = <<>> THEN <<>>
    ELSE LET before == DictKeys(SubSeq(lines, 1, Len(lines) - 1))
             potential_name == upper(lines[Len(lines)])
         IN  IF potential_name = <<>> \/ \E k \in 1..Len(before) : before[k] = potential_name
             THEN before
             ELSE Append(before, potential_name)

DictCount(lines, key) == Cardinality({ i \in 1..Len(lines) : upper(lines[i]) = key })

IsBasinCode(key) == \E c \in 1..Len(basin_codes) : basin_codes[c] = key
ContainsDigit(key) == \E i \in 1..Len(key) : key[i] \in Digits

\* Lines 73-80: keys left after the three removals.
Keep(key) == ~IsBasinCode(key) /\ ~ContainsDigit(key) /\ key \notin number_words_set

RECURSIVE FilterKeys(_)
FilterKeys(keys) ==
    IF keys = <<>> THEN <<>>
    ELSE IF Keep(Head(keys)) THEN << Head(keys) >> \o FilterKeys(Tail(keys))
         ELSE FilterKeys(Tail(keys))

RECURSIVE Remove(_, _)
Remove(keys, key) ==
    IF keys = <<>> THEN <<>>
    ELSE IF Head(keys) = key THEN Tail(keys)
         ELSE << Head(keys) >> \o Remove(Tail(keys), key)

\* Lines 101-110: the name without a trailing basin code, when what is left
\* is alphabetical.
cleaned_name(name) ==
    IF \E c \in 1..Len(basin_codes) :
          /\ endswith(name, basin_codes[c])
          /\ isalpha(strip(SubSeq(name, 1, Len(name) - 2)))
    THEN strip(SubSeq(name, 1, Len(name) - 2))
    ELSE name

\* storm_names[-1]
LastOf(names) == names[Len(names)]

\* The storm name extract_storm_info returns for the 28th columns of the
\* lines of a file.
storm_name_of(lines) ==
    LET keys == FilterKeys(DictKeys(lines))
        storm_names == IF keys # << INVEST >> THEN Remove(keys, INVEST) ELSE keys
        cleaned_names == { cleaned_name(storm_names[k]) : k \in 1..Len(storm_names) }
    IN  title(IF Len(keys) = 0 THEN DISTURBANCE
              ELSE IF keys = << INVEST >> THEN INVEST
              ELSE IF Len(storm_names) = 1 THEN storm_names[1]
              ELSE IF Cardinality(cleaned_names) = 1
                   THEN CHOOSE name \in cleaned_names : TRUE
              ELSE LastOf(storm_names))

(***************************************************************************)
(* Active storms of the directory (get_recent_adeck_paths)                 *)
(***************************************************************************)

\* Most rows of a generated storm directory.
MaxRows == 2

\* Times are whole hours from an epoch.  The timestamps the function is
\* called with, and the end dates of the directory: 30, 24, 12 and 6 hours
\* before the first timestamp, at it, and 6 and 12 hours after it.
Timestamps == {48, 54}
EndDates == {18, 24, 36, 42, 48, 54, 60}

\* A row of the directory: Storm_End_Date is <<hour>>, or <<>> for a value
\* parse_datetime turns into NaT.
DirectoryRow(end) == [Storm_End_Date |-> end]
DirectoryRows == { DirectoryRow(<< e >>) : e \in EndDates } \cup { DirectoryRow(<<>>) }

\* timestamp_utc - timedelta(hours=0)
time_threshold(timestamp_utc) == timestamp_utc - 0

\* The indices of the rows get_recent_adeck_paths returns.  A comparison
\* with NaT is false; when the function raises it returns an empty list,
\* which holds no row either.
get_recent_adeck_paths(rows, timestamp_utc) ==
    FilterIndices([i \in 1..Len(rows) |-> i],
                  { i \in 1..Len(rows) :
                      /\ rows[i].Storm_End_Date # <<>>
                      /\ rows[i].Storm_End_Date[1] > time_threshold(timestamp_utc) })

(***************************************************************************)
(* The run's timestamp (main, lines 27-41)                                 *)
(***************************************************************************)

\* The times of day and the days main is started at.
ClockDays == {1, 2}
ClockMinutes == {0, 1, 59}
ClockSeconds == {0, 59}

forecast_hours == {0, 6, 12, 18}

\* valid_hours with hour < current_hour.
valid_hours_strict(current_hour) == { h \in forecast_hours : h < current_hour }

\* [hour for hour in forecast_hours if hour <= current_hour]
valid_hours(current_hour) == { h \in forecast_hours : h <= current_hour }

\* The adjustment of timestamp_utc; fallback tells which branch ran.
adjust_timestamp(timestamp_utc) ==
    LET valid == valid_hours(timestamp_utc.hour)
    IN  IF valid # {}
        THEN [timestamp |-> [timestamp_utc EXCEPT
                               !.hour = CHOOSE h \in valid : \A o \in valid : o <= h,
                               !.minute = 0, !.second = 0],
              fallback |-> FALSE]
        ELSE [timestamp |-> [day |-> timestamp_utc.day - 1, hour |-> 18,
                             minute |-> 0, second |-> 0],
              fallback |-> TRUE]

(***************************************************************************)
(* The storm directory (download_and_update_storm_data)                    *)
(***************************************************************************)

\* Most calls of download_and_update_storm_data in a generated sequence.
MaxCalls == 3

\* The a-deck files: the basin and the storm number are read from the file
\* name, which also carries a year.
DatFiles ==
    { [basin |-> b, storm_number |-> 1, file_year |-> y] :
        b \in {"AL", "EP"}, y \in {2024, 2025} }

\* What extract_storm_info returns for the downloaded file: the year is
\* <<>> (None) when no line of the file has a parseable date.
NoDates ==
    [storm_name |-> "Disturbance", storm_start_date |-> <<>>,
     storm_end_date |-> <<>>, storm_year |-> <<>>]
StormInfos ==
    { [storm_name |-> n[1], storm_start_date |-> << n[2] >>,
       storm_end_date |-> << n[3] >>, storm_year |-> << y >>] :
        n \in { << "Invest", 1, 1 >>, << "Ana", 0, 2 >> }, y \in {2024, 2025} }
    \cup { NoDates }

HasKey(row, basin, storm_number, storm_year) ==
    row.Basin = basin /\ row.Storm_Number = storm_number /\ row.Storm_Year = storm_year

\* storm_exists that does not compare the year.
storm_exists_any_year(df, basin, storm_number, storm_year) ==
    \E i \in 1..Len(df) : df[i].Basin = basin /\ df[i].Storm_Number = storm_number

\* Line 166
storm_exists(df, basin, storm_number, storm_year) ==
    \E i \in 1..Len(df) : HasKey(df[i], basin, storm_number, storm_year)

\* The rows of the CSV after download_and_update_storm_data, for the file,
\* what extract_storm_info returned for it, and the rows before (none when
\* there is no CSV yet).  downloaded is FALSE when the download failed and
\* no earlier copy of the file exists: extract_storm_info raises then.
download_and_update_storm_data(df, file_name, info, downloaded) ==
    IF ~downloaded \/ info.storm_year = <<>>
    THEN df
    ELSE LET basin == file_name.basin
             storm_number == file_name.storm_number
             storm_year == info.storm_year[1]
         IN  IF storm_exists(df, basin, storm_number, storm_year)
             THEN [ i \in 1..Len(df) |->
                      IF HasKey(df[i], basin, storm_number, storm_year)
                      THEN [df[i] EXCEPT !.Storm_Name = info.storm_name,
                                         !.Storm_Start_Date = info.storm_start_date,
                                         !.Storm_End_Date = info.storm_end_date]
                      ELSE df[i] ]
             ELSE Append(df, [Basin |-> basin, Storm_Number |-> storm_number,
                              Storm_Name |-> info.storm_name,
                              Storm_Start_Date |-> info.storm_start_date,
                              Storm_End_Date |-> info.storm_end_date,
                              Storm_Year |-> storm_year,
                              adeck_path |-> file_name])

(***************************************************************************)
(* Mail service credentials (get_gmail_service of app.py)                  *)
(***************************************************************************)

\* Most calls of get_gmail_service in a generated sequence.
MaxServiceCalls == 3

\* Credentials as google.oauth2 sees them: whether there is an access
\* token, whether its expiry has passed, whether there is a refresh token.
Credentials(token, expired, refresh_token) ==
    [token |-> token, expired |-> expired, refresh_token |-> refresh_token]

\* Credentials.valid
valid(c) == c.token /\ ~c.expired

\* token.json: no file; a file that is not JSON or lacks a required key
\* (ValueError on loading); a file that cannot be opened (OSError); or the
\* credentials it holds.
TokenFiles ==
    { << "absent" >>, << "corrupt" >>, << "unreadable" >> }
    \cup { << "credentials", Credentials(t, e, r) >> : t, e, r \in BOOLEAN }

(***************************************************************************)
(* Geometry.  Positions are points of a lattice of CellTenths tenths of a  *)
(* degree; a polygon is the set of lattice points it covers.  One tenth of *)
(* a degree is 6 nautical miles, so the same lattice serves the geographic *)
(* frame (degrees) and the projected frame (metres): to_crs changes the    *)
(* unit of the coordinates and keeps the lattice points.                   *)
(***************************************************************************)

\* Lattice size and spacing.
GridW == 8
GridH == 6
CellTenths == 5

\* 1 NM = 1852 meters; a tenth of a degree is 6 nautical miles.
MetersPerNM == 1852
CellNM == 6 * CellTenths
CellM == CellNM * MetersPerNM

Cells == [x : 0..(GridW - 1), y : 0..(GridH - 1)]

DistSq(a, b) == (a.x - b.x) * (a.x - b.x) + (a.y - b.y) * (a.y - b.y)

\* shapely Point.buffer(radius_m) in the projected frame: the lattice points
\* within radius_m metres of the centre.  Both sides of
\* DistSq * CellM^2 <= radius_m^2 are divided by MetersPerNM^2, which divides
\* them exactly, to stay within 32-bit integers.
buffer(center, radius_m) ==
    { c \in Cells :
        DistSq(c, center) * (CellM \div MetersPerNM) * (CellM \div MetersPerNM)
            <= (radius_m \div MetersPerNM) * (radius_m \div MetersPerNM) }

Cross(o, a, b) == (a.x - o.x) * (b.y - o.y) - (a.y - o.y) * (b.x - o.x)
Dot(o, a, b) == (a.x - o.x) * (b.x - o.x) + (a.y - o.y) * (b.y - o.y)

\* p lies outside the convex hull of S: some a in S has the whole of S on the
\* left of the ray from p through a, or on the ray itself.
Separated(p, S) ==
    \E a \in S : \A s \in S :
        \/ Cross(p, a, s) > 0
        \/ (Cross(p, a, s) = 0 /\ Dot(p, a, s) > 0)

\* geometry.convex_hull
convex_hull(S) == { p \in Cells : p \in S \/ (S # {} /\ ~Separated(p, S)) }

\* shapely.ops.unary_union of a list of geometries; of an empty list it is
\* the empty geometry collection.
unary_union(geoms) == UNION { geoms[i] : i \in 1..Len(geoms) }

(***************************************************************************)
(* Radius table and cone builder                                           *)
(***************************************************************************)

ALRadii == (12 :> 26 @@ 24 :> 41 @@ 36 :> 55 @@ 48 :> 70 @@ 60 :> 88
            @@ 72 :> 102 @@ 96 :> 151 @@ 120 :> 220)

radius_lookup ==
    [ AL |-> ALRadii,
      EP |-> (12 :> 26 @@ 24 :> 39 @@ 36 :> 53 @@ 48 :> 65 @@ 60 :> 76
              @@ 72 :> 92 @@ 96 :> 119 @@ 120 :> 152),
      CP |-> (12 :> 34 @@ 24 :> 49 @@ 36 :> 66 @@ 48 :> 81 @@ 60 :> 95
              @@ 72 :> 120 @@ 96 :> 137 @@ 120 :> 156),
      WP |-> ALRadii, IO |-> ALRadii, SH |-> ALRadii, SL |-> ALRadii ]

\* get_radius that falls back on the Atlantic 12-hour radius.
get_radius_default(basin, forecast_hour) ==
    IF basin \in DOMAIN radius_lookup /\ forecast_hour \in DOMAIN radius_lookup[basin]
    THEN << radius_lookup[basin][forecast_hour] >>
    ELSE << 26 >>

\* get_radius: <<radius in nautical miles>>, or <<>> for None.
get_radius(basin, forecast_hour) ==
    IF basin \in DOMAIN radius_lookup /\ forecast_hour \in DOMAIN radius_lookup[basin]
    THEN << radius_lookup[basin][forecast_hour] >>
    ELSE <<>>

models_to_try ==
    << "OFCL", "OFCI", "AEMN", "AVNO", "AVNI", "AVNX", "EGRR", "EGRI", "EGR2",
       "UKM", "UKX", "UKMI", "UKXI", "UKM2", "UKX2", "HWRF", "HWFI", "HWF2" >>

\* A frame: has_columns is FALSE for a bare gpd.GeoDataFrame().
EmptyGeoDataFrame == [has_columns |-> FALSE, crs |-> "none", rows |-> <<>>]

\* filter_adeck_gdf_for_official_model: the rows of the first model of
\* models_to_try that has any; a bare GeoDataFrame() when none has.
filter_adeck_gdf_for_official_model(adeck_gdf) ==
    LET RowsOf(model) ==
            LET IsModel(r) == r.ModelName = model IN SelectSeq(adeck_gdf.rows, IsModel)
        found == { i \in 1..Len(models_to_try) : RowsOf(models_to_try[i]) # <<>> }
    IN  IF found = {}
        THEN EmptyGeoDataFrame
        ELSE LET first == CHOOSE i \in found : \A k \in found : i <= k
             IN  [adeck_gdf EXCEPT !.rows = RowsOf(models_to_try[first])]

\* DataFrame.sort_values(by='ForecastHour'), as a stable insertion sort.
RECURSIVE InsertByHour(_, _)
InsertByHour(sorted, r) ==
    IF sorted = <<>> THEN << r >>
    ELSE IF Head(sorted).ForecastHour <= r.ForecastHour
         THEN << Head(sorted) >> \o InsertByHour(Tail(sorted), r)
         ELSE << r >> \o sorted

\* sort_values that leaves the rows in file order.
sort_values_unsorted(rows) == rows

RECURSIVE sort_values(_)
sort_values(rows) ==
    IF rows = <<>> THEN <<>>
    ELSE InsertByHour(sort_values(SubSeq(rows, 1, Len(rows) - 1)), rows[Len(rows)])

\* The buffering loop of create_uncertainty_cone: one disk per row that has
\* a radius entry, in row order; rows without one are skipped.
RECURSIVE BufferLoop(_)
BufferLoop(rows) ==
    IF rows = <<>> THEN <<>>
    ELSE LET row == Head(rows)
             radius_nm == get_radius(row.Basin, row.ForecastHour)
         IN  IF radius_nm = <<>>
             THEN BufferLoop(Tail(rows))
             ELSE << buffer(row.geometry, radius_nm[1] * MetersPerNM) >>
                  \o BufferLoop(Tail(rows))

\* HullSegment that forgets the second buffer.
HullSegmentFirstOnly(first, second) == convex_hull(first)

\* One bridging shape: first.convex_hull.union(second.convex_hull).convex_hull
HullSegment(first, second) ==
    convex_hull(convex_hull(first) \cup convex_hull(second))

\* HullLoop that bridges every later buffer to the first one.
HullLoopFromFirst(buffered_geometries) ==
    [ i \in 1..(IF Len(buffered_geometries) = 0 THEN 0 ELSE Len(buffered_geometries) - 1)
        |-> HullSegment(buffered_geometries[1], buffered_geometries[i + 1]) ]

\* HullLoop that also bridges the last buffer to itself.
HullLoopWithLast(buffered_geometries) ==
    [ i \in 1..Len(buffered_geometries)
        |-> convex_hull(buffered_geometries[i]
                        \cup buffered_geometries[IF i < Len(buffered_geometries)
                                                 THEN i + 1 ELSE i]) ]

\* for first, second in zip(buffered_geometries, buffered_geometries[1:])
HullLoop(buffered_geometries) ==
    [ i \in 1..(IF Len(buffered_geometries) = 0 THEN 0 ELSE Len(buffered_geometries) - 1)
        |-> HullSegment(buffered_geometries[i], buffered_geometries[i + 1]) ]

\* create_uncertainty_cone.  raised: the call ended in an exception
\* (sort_values on a frame without a ForecastHour column is a KeyError).
\* cone: the returned frame.  The two lists are the function's locals.
create_uncertainty_cone(input_gdf) ==
    LET ofcl_gdf == filter_adeck_gdf_for_official_model(input_gdf)
    IN  IF ~ofcl_gdf.has_columns
        THEN [raised |-> TRUE, error |-> "KeyError: 'ForecastHour'",
              cone |-> EmptyGeoDataFrame,
              buffered_geometries |-> <<>>, convex_hull_segments |-> <<>>]
        ELSE LET sorted == sort_values(ofcl_gdf.rows)
                 buffered_geometries == BufferLoop(sorted)
                 convex_hull_segments == HullLoop(buffered_geometries)
             IN  IF buffered_geometries = <<>>
                 THEN [raised |-> FALSE, error |-> "",
                       cone |-> EmptyGeoDataFrame,
                       buffered_geometries |-> buffered_geometries,
                       convex_hull_segments |-> <<>>]
                 ELSE [raised |-> FALSE, error |-> "",
                       cone |-> [has_columns |-> TRUE, crs |-> "EPSG:4326",
                                 rows |-> << [geometry |-> unary_union(convex_hull_segments)] >>],
                       buffered_geometries |-> buffered_geometries,
                       convex_hull_segments |-> convex_hull_segments]

(***************************************************************************)
(* Tracks the builder is applied to                                        *)
(***************************************************************************)

\* Most forecast points in a generated track.
MaxPoints == 3

\* Forecast sources: the first and the third of models_to_try, and one that
\* is not in the list.
TrackModels == {"OFCL", "AEMN", "CARQ"}
\* Horizons: 0 has no radius entry.
TrackHours == {0, 12, 24, 36}
\* Where the storm is forecast to be at each horizon, on one of two courses.
PositionAt(course, hour) ==
    IF course = 1
    THEN [x |-> 2 + (hour \div 12), y |-> 2]
    ELSE [x |-> 2 + (hour \div 12), y |-> 2 + ((hour \div 12) % 2)]

TrackPoints(basin, course) ==
    { [ModelName |-> m, ForecastHour |-> h, Basin |-> basin,
       geometry |-> PositionAt(course, h)] : m \in TrackModels, h \in TrackHours }

Frame(rows) == [has_columns |-> TRUE, crs |-> "EPSG:4326", rows |-> rows]

\* The basins and courses of the generated tracks.
TrackKinds == { <<"AL", 1>>, <<"AL", 2>>, <<"CP", 2>>, <<"XX", 1>> }

\* Official tracks with a point at 30 hours, which has no radius entry,
\* between the points at 12 and at 36 hours, in three file orders.
GapTracks ==
    { Frame([i \in 1..3 |-> [ModelName |-> "OFCL", ForecastHour |-> hours[i], Basin |-> "AL",
                              geometry |-> PositionAt(course, hours[i])]]) :
        hours \in { << 12, 30, 36 >>, << 36, 30, 12 >>, << 30, 36, 12 >> },
        course \in {1, 2} }

\* gdf is a storm's forecast points at one timestamp, in file order: at
\* least one (the caller skips a storm with no data at the timestamp) and at
\* most n.
IsTrack(gdf, n) ==
    \E kind \in TrackKinds, k \in 1..n :
        \E rows \in [1..k -> TrackPoints(kind[1], kind[2])] : gdf = Frame(rows)

(***************************************************************************)
(* The intercept-and-alert run: main() of intercept_and_alert_V3.py and of *)
(* app.py.  The two differ in the impact check and in what they do when a  *)
(* report cannot be sent.                                                  *)
(***************************************************************************)

\* Most rows in the storm directory.
MaxStorms == 2

\* What gpd.read_parquet finds at a storm's path: whether the file can be
\* read, and its rows at the run's timestamp.
Point(model, hour, basin, course) ==
    [ModelName |-> model, ForecastHour |-> hour, Basin |-> basin,
     geometry |-> PositionAt(course, hour)]

FileUnreadable == [readable |-> FALSE, at_timestamp |-> <<>>]
FileNoData == [readable |-> TRUE, at_timestamp |-> <<>>]
\* Official forecast at 12 and 24 hours on course 1, with other sources.
FileA ==
    [readable |-> TRUE,
     at_timestamp |-> << Point("CARQ", 0, "AL", 1), Point("OFCL", 24, "AL", 1),
                         Point("AEMN", 36, "AL", 1), Point("OFCL", 12, "AL", 1) >>]
\* Official forecast at 12 and 24 hours on course 2.
FileB ==
    [readable |-> TRUE,
     at_timestamp |-> << Point("OFCL", 12, "AL", 2), Point("OFCL", 24, "AL", 2) >>]
\* One official point with a radius entry.
FileOne == [readable |-> TRUE, at_timestamp |-> << Point("OFCL", 12, "AL", 1) >>]
\* One official point, at horizon 0.
FileZero == [readable |-> TRUE, at_timestamp |-> << Point("OFCL", 0, "AL", 1) >>]
\* No record of a preferred source.
FileNoSource == [readable |-> TRUE, at_timestamp |-> << Point("CARQ", 12, "AL", 1) >>]

\* The rows a storm directory is made of (adeck_path_parquet is set from the
\* row's place in the directory).
StormMenu ==
    { [Storm_Name |-> "Invest", Basin |-> "AL", file |-> FileA],
      [Storm_Name |-> "Ana", Basin |-> "AL", file |-> FileA],
      [Storm_Name |-> "Ana", Basin |-> "AL", file |-> FileB],
      [Storm_Name |-> "Ana", Basin |-> "AL", file |-> FileUnreadable],
      [Storm_Name |-> "Ana", Basin |-> "AL", file |-> FileNoData],
      [Storm_Name |-> "Bob", Basin |-> "AL", file |-> FileB],
      [Storm_Name |-> "Bob", Basin |-> "AL", file |-> FileOne],
      [Storm_Name |-> "Bob", Basin |-> "AL", file |-> FileZero],
      [Storm_Name |-> "Bob", Basin |-> "AL", file |-> FileNoSource] }

StormRow(entry, path) ==
    [Storm_Name |-> entry.Storm_Name, Basin |-> entry.Basin,
     adeck_path_parquet |-> path, file |-> entry.file]

\* The portfolio's areas of interest: a display label and a polygon.
AOIMenu ==
    << [Name |-> << "A", " ", "1" >>, geometry |-> { [x |-> 6, y |-> 2] }],
       [Name |-> << "A", " ", "2" >>, geometry |-> { [x |-> 3, y |-> 4] }],
       [Name |-> << "B" >>,           geometry |-> { [x |-> 0, y |-> 0] }] >>

Portfolios ==
    { AOIMenu, SubSeq(AOIMenu, 2, 3), SubSeq(AOIMenu, 3, 3) }

\* GeoSeries.buffer(0.7): the lattice points within 0.7 degrees (7 tenths)
\* of the geometry.
BufferTenths == 7

buffer_degrees(geometry, tenths) ==
    { c \in Cells : \E g \in geometry :
        DistSq(c, g) * CellTenths * CellTenths <= tenths * tenths }

\* AOIs_buff = GeoDataFrame(data=AOIs, geometry=AOIs.buffer(0.7))
AOIs_buff(aois) ==
    [ i \in 1..Len(aois) |-> [aois[i] EXCEPT !.geometry = buffer_degrees(@, BufferTenths)] ]

\* clean_strings(gdf, 'Name', 'ClientName'): every row gets its ClientName.
clean_strings(rows) ==
    [ i \in 1..Len(rows) |-> [rows[i] EXCEPT !.ClientName = << process_string(rows[i].Name) >>] ]

\* overlay that keeps a row for every AOI, intersecting or not.
RECURSIVE overlay_every_aoi(_, _, _)
overlay_every_aoi(aois_buff, i, cone_row) ==
    IF i > Len(aois_buff) THEN <<>>
    ELSE << [aoi |-> i, Name |-> aois_buff[i].Name, ClientName |-> <<>>,
             Storm_Name |-> cone_row.Storm_Name,
             adeck_path_parquet |-> cone_row.adeck_path_parquet,
             geometry |-> aois_buff[i].geometry \cap cone_row.geometry] >>
         \o overlay_every_aoi(aois_buff, i + 1, cone_row)

\* gpd.overlay(AOIs_buff, row_gdf): one row per buffered AOI that intersects
\* the cone, with the attributes of both and the intersection as geometry.
\* The new rows have no ClientName yet.
RECURSIVE overlay(_, _, _)
overlay(aois_buff, i, cone_row) ==
    IF i > Len(aois_buff) THEN <<>>
    ELSE LET common == aois_buff[i].geometry \cap cone_row.geometry
         IN  (IF common = {} THEN <<>>
              ELSE << [aoi |-> i, Name |-> aois_buff[i].Name, ClientName |-> <<>>,
                       Storm_Name |-> cone_row.Storm_Name,
                       adeck_path_parquet |-> cone_row.adeck_path_parquet,
                       geometry |-> common] >>)
             \o overlay(aois_buff, i + 1, cone_row)

\* Series.unique(): the distinct values in order of first appearance.
RECURSIVE unique(_)
unique(values) ==
    IF values = <<>> THEN <<>>
    ELSE LET rest == unique(SubSeq(values, 1, Len(values) - 1))
             last == values[Len(values)]
         IN  IF \E i \in 1..Len(rest) : rest[i] = last THEN rest ELSE Append(rest, last)

Column(rows, c) == [ i \in 1..Len(rows) |-> rows[i][c] ]

\* A report handed to the mail transport; ok is whether the send returned.
Report(kind, ok) ==
    [report |-> kind, ok |-> ok, client |-> <<>>, storm |-> "", adeck_path |-> 0]

\* recent_adeck_paths[recent_adeck_paths['Storm_Name'] != 'Invest']
NotInvest(row) == row.Storm_Name # "Invest"

\* pd.concat([first, second], ignore_index=True) on the rows of two frames.
concat_first_only(first, second) == first

concat(first, second) == first \o second

\* Where main is after send_no_storms_email: without the return it would
\* go on to the storm loop.
after_no_storms_no_return(ok) == IF ok THEN "storms" ELSE "except"

\* send_no_storms_email(email_list); return -- or the send raised.
after_no_storms(ok) == IF ok THEN "done" ELSE "except"

\* Lines 43-71 (V3), 368-402 (app): read the portfolio and the storm
\* directory, drop the Invest rows, report 'no storms' and return when none
\* is left.  get_recent_adeck_paths answers [] when the directory cannot be
\* read, and indexing the list by 'Storm_Name' then raises.
LoadInputs ==
    /\ pc = "load"
    /\ UNCHANGED pureVars
    /\ UNCHANGED <<variant, inputs, loop_i, cones, error_msgs, error_data,
                   intercepts, affected_clients>>
    /\ IF inputs.fault = "portfolio"
       THEN /\ pc' = "except"
            /\ exception' = "read_file"
            /\ UNCHANGED <<AOIs, recent_adeck_paths, sent>>
       ELSE /\ AOIs' = [ i \in 1..Len(inputs.portfolio)
                           |-> [Name |-> inputs.portfolio[i].Name, ClientName |-> <<>>,
                                geometry |-> inputs.portfolio[i].geometry] ]
            /\ IF inputs.fault = "directory"
               THEN /\ pc' = "except"
                    /\ exception' = "TypeError"
                    /\ UNCHANGED <<recent_adeck_paths, sent>>
               ELSE LET recent == SelectSeq(inputs.directory, NotInvest)
                    IN  /\ recent_adeck_paths' = recent
                        /\ IF recent = <<>>
                           THEN \E ok \in BOOLEAN :
                                   /\ sent' = Append(sent, Report("no_storms", ok))
                                   /\ pc' = after_no_storms(ok)
                                   /\ exception' = IF ok THEN exception ELSE "send_email"
                           ELSE /\ pc' = "storms"
                                /\ UNCHANGED <<sent, exception>>

\* Lines 108-116: the storm's cone with the storm's metadata on every row.
storm_cone(row) ==
    LET call == create_uncertainty_cone(Frame(row.file.at_timestamp))
    IN  [ i \in 1..Len(call.cone.rows)
            |-> [geometry |-> call.cone.rows[i].geometry,
                 Basin |-> row.Basin,
                 Storm_Name |-> row.Storm_Name,
                 adeck_path_parquet |-> row.adeck_path_parquet] ]

\* Lines 81-126 (V3), 412-446 (app): one iteration of the per-storm loop.
ProcessStorm ==
    /\ pc = "storms"
    /\ UNCHANGED pureVars
    /\ loop_i < Len(recent_adeck_paths)
    /\ loop_i' = loop_i + 1
    /\ UNCHANGED <<variant, inputs, pc, AOIs, recent_adeck_paths, intercepts,
                   affected_clients, exception, sent>>
    /\ LET row == recent_adeck_paths[loop_i + 1]
           Msg(kind) == [Storm_Name |-> row.Storm_Name,
                         adeck_path_parquet |-> row.adeck_path_parquet, error |-> kind]
       IN  IF ~row.file.readable
           THEN /\ error_msgs' = Append(error_msgs, Msg("read_parquet"))
                /\ UNCHANGED <<cones, error_data>>
           ELSE IF row.file.at_timestamp = <<>>
           THEN /\ error_msgs' = Append(error_msgs, Msg("No data found"))
                /\ error_data' = Append(error_data, row.adeck_path_parquet)
                /\ UNCHANGED cones
           ELSE LET call == create_uncertainty_cone(Frame(row.file.at_timestamp))
                IN  IF call.raised
                    THEN /\ error_msgs' = Append(error_msgs, Msg(call.error))
                         /\ UNCHANGED <<cones, error_data>>
                    ELSE /\ cones' = concat(storm_cone(row), cones)
                         /\ UNCHANGED <<error_msgs, error_data>>

\* Lines 128-130 (V3), 448-454 (app): the errors report.  app.py goes on when
\* it cannot be sent; in V3 the failure reaches the outer handler.
ReportErrors ==
    /\ pc = "storms"
    /\ UNCHANGED pureVars
    /\ loop_i = Len(recent_adeck_paths)
    /\ loop_i' = 0
    /\ UNCHANGED <<variant, inputs, AOIs, recent_adeck_paths, cones, error_msgs,
                   error_data, intercepts, affected_clients>>
    /\ IF Len(error_msgs) > 0
       THEN \E ok \in BOOLEAN :
               /\ sent' = Append(sent, Report("errors", ok))
               /\ IF ok \/ variant = "app"
                  THEN pc' = "overlay" /\ UNCHANGED exception
                  ELSE pc' = "except" /\ exception' = "send_email"
       ELSE /\ pc' = "overlay"
            /\ UNCHANGED <<sent, exception>>

\* Lines 139-148: the intercepts frame after a completed iteration of the
\* overlay loop for cone_row.
overlay_iteration(aois, cone_row, rows) ==
    clean_strings(concat(overlay(AOIs_buff(aois), 1, cone_row), rows))

\* Lines 136-155 (V3), 459-478 (app): one iteration of the overlay loop.
\* The overlay may raise; the handler prints and the loop goes on.
OverlayCone ==
    /\ pc = "overlay"
    /\ UNCHANGED pureVars
    /\ loop_i < Len(cones)
    /\ loop_i' = loop_i + 1
    /\ UNCHANGED <<variant, inputs, pc, recent_adeck_paths, cones, error_msgs,
                   error_data, exception, sent>>
    /\ \E raises \in BOOLEAN :
          IF raises
          THEN UNCHANGED <<AOIs, intercepts, affected_clients>>
          ELSE LET cleaned_rows == overlay_iteration(AOIs, cones[loop_i + 1], intercepts)
               IN  /\ intercepts' = cleaned_rows
                   /\ AOIs' = clean_strings(AOIs)
                   /\ affected_clients' = << unique(Column(cleaned_rows, "ClientName")) >>

\* Alert loops with one iteration per intercept row of the client.
RECURSIVE AlertPairsPerRow(_, _)
AlertPairsPerRow(rows, clients) ==
    IF clients = <<>> THEN <<>>
    ELSE LET affc == Head(clients)
             IsClient(r) == r.ClientName = affc
             rel_intercept == SelectSeq(rows, IsClient)
         IN  [ i \in 1..Len(rel_intercept)
                 |-> [client |-> affc, storm |-> rel_intercept[i].Storm_Name,
                      adeck_path |-> rel_intercept[i].adeck_path_parquet] ]
             \o AlertPairsPerRow(rows, Tail(clients))

\* The (client, storm name) pairs of the alert loops, in loop order, each
\* with the track it reads: the adeck_path_parquet of the client's first
\* intercept row that carries the storm name (.iloc[0]).
RECURSIVE AlertPairs(_, _)
AlertPairs(rows, clients) ==
    IF clients = <<>> THEN <<>>
    ELSE LET affc == Head(clients)
             IsClient(r) == r.ClientName = affc
             rel_intercept == SelectSeq(rows, IsClient)
             storms == unique(Column(rel_intercept, "Storm_Name"))
             PathOf(storm) ==
                 LET IsStorm(r) == r.Storm_Name = storm
                 IN  SelectSeq(rel_intercept, IsStorm)[1].adeck_path_parquet
         IN  [ i \in 1..Len(storms)
                 |-> [client |-> affc, storm |-> storms[i], adeck_path |-> PathOf(storms[i])] ]
             \o AlertPairs(rows, Tail(clients))

\* Lines 157-160 (V3), 480-483 (app): the impact check.  V3 reads
\* affected_clients, which is unbound when no overlay iteration completed;
\* app.py tests for that first.
CheckImpacts ==
    /\ pc = "overlay"
    /\ UNCHANGED pureVars
    /\ loop_i = Len(cones)
    /\ loop_i' = 0
    /\ UNCHANGED <<variant, inputs, AOIs, recent_adeck_paths, cones, error_msgs,
                   error_data, intercepts, affected_clients>>
    /\ IF affected_clients = <<>> /\ variant = "V3"
       THEN /\ pc' = "except"
            /\ exception' = "UnboundLocalError"
            /\ UNCHANGED sent
       ELSE IF affected_clients = <<>> \/ Len(affected_clients[1]) = 0
       THEN \E ok \in BOOLEAN :
               /\ sent' = Append(sent, Report("no_impacts", ok))
               /\ pc' = IF ok THEN "done" ELSE "except"
               /\ exception' = IF ok THEN exception ELSE "send_email"
       ELSE /\ pc' = "alerts"
            /\ UNCHANGED <<sent, exception>>

\* Lines 163-214 (V3), 486-537 (app): one (client, storm) iteration of the
\* alert loops; whatever fails in it is printed and the loops go on.
AlertPair ==
    /\ pc = "alerts"
    /\ UNCHANGED pureVars
    /\ LET pairs == AlertPairs(intercepts, affected_clients[1])
       IN  /\ loop_i < Len(pairs)
           /\ \E ok \in BOOLEAN :
                 sent' = Append(sent, [report |-> "map", ok |-> ok,
                                       client |-> pairs[loop_i + 1].client,
                                       storm |-> pairs[loop_i + 1].storm,
                                       adeck_path |-> pairs[loop_i + 1].adeck_path])
    /\ loop_i' = loop_i + 1
    /\ UNCHANGED <<variant, inputs, pc, AOIs, recent_adeck_paths, cones, error_msgs,
                   error_data, intercepts, affected_clients, exception>>

\* The alert loops are over: main returns.
Finish ==
    /\ pc = "alerts"
    /\ UNCHANGED pureVars
    /\ loop_i = Len(AlertPairs(intercepts, affected_clients[1]))
    /\ pc' = "done"
    /\ UNCHANGED <<variant, inputs, loop_i, AOIs, recent_adeck_paths, cones, error_msgs,
                   error_data, intercepts, affected_clients, exception, sent>>

\* Lines 216-218 (V3), 539-545 (app): the outer handler sends the general
\* error report.  When that fails, V3's main ends in the exception; app.py
\* prints it and returns.  In app.py the recipients are a local that is not
\* bound yet when the portfolio could not be read, so nothing is sent then.
HandleError ==
    /\ pc = "except"
    /\ UNCHANGED pureVars
    /\ IF variant = "app" /\ exception = "read_file"
       THEN pc' = "done" /\ UNCHANGED sent
       ELSE \E ok \in BOOLEAN :
               /\ sent' = Append(sent, Report("error", ok))
               /\ pc' = IF ok \/ variant = "app" THEN "done" ELSE "raised"
    /\ UNCHANGED <<variant, inputs, loop_i, AOIs, recent_adeck_paths, cones, error_msgs,
                   error_data, intercepts, affected_clients, exception>>

\* The storm directory with the given rows.
Directory(entries) == [ i \in 1..Len(entries) |-> StormRow(entries[i], i) ]

RunIdle ==
    /\ variant = "V3"
    /\ inputs = [fault |-> "none", portfolio |-> <<>>, directory |-> <<>>]
    /\ pc = "idle"
    /\ loop_i = 0
    /\ AOIs = <<>>
    /\ recent_adeck_paths = <<>>
    /\ cones = <<>>
    /\ error_msgs = <<>>
    /\ error_data = <<>>
    /\ intercepts = <<>>
    /\ affected_clients = <<>>
    /\ exception = ""
    /\ sent = <<>>

(***************************************************************************)
(* Specifications of the pure functions                                    *)
(***************************************************************************)

ClassifierIdle == wind_speed = 0 /\ category = <<>>
CleanIdle == label = <<>> /\ cleaned = <<>>
ConeIdle == storm_dat = Frame(<<>>) /\ cone_call = <<>>
RadiusIdle == radius_basin = "AL" /\ radius_hour = 0 /\ radius = <<>>
PressureIdle == central_pressure = 0 /\ pressure_category = <<>>
ParseIdle == df_row = <<>>
CoordIdle == coord_field = <<>> /\ coord = <<>>
FileIdle == dat_file = <<>> /\ parsed_gdf = <<>>
NameIdle == name_lines = <<>> /\ storm_name = <<>>
RecentIdle == csv_rows = <<>> /\ csv_timestamp = 0 /\ recent_storms = <<>>
TimeIdle == clock = <<>> /\ adjusted = <<>>
UpsertIdle == storm_csv = <<>> /\ upsert_calls = 0 /\ last_upsert = <<>>
GmailIdle ==
    token_json = <<>> /\ creds = <<>> /\ gmail_pc = "idle" /\ gmail_calls = 0 /\ service = <<>>

\* Every function but the named one is idle.
IdleExcept(fn) ==
    /\ (fn = "classifier" \/ ClassifierIdle)
    /\ (fn = "clean" \/ CleanIdle)
    /\ (fn = "cone" \/ ConeIdle)
    /\ (fn = "radius" \/ RadiusIdle)
    /\ (fn = "pressure" \/ PressureIdle)
    /\ (fn = "categorize" \/ ParseIdle)
    /\ (fn = "parse_lat_lon" \/ CoordIdle)
    /\ (fn = "read_adeck" \/ FileIdle)
    /\ (fn = "extract_storm_info" \/ NameIdle)
    /\ (fn = "get_recent" \/ RecentIdle)
    /\ (fn = "timestamp" \/ TimeIdle)
    /\ (fn = "upsert" \/ UpsertIdle)
    /\ (fn = "gmail" \/ GmailIdle)
    /\ (fn = "main" \/ RunIdle)

InitClassifier ==
    /\ wind_speed \in 0..MaxWind
    /\ category = <<>>
    /\ IdleExcept("classifier")

ClassifyWind ==
    /\ category = <<>>
    /\ category' = << wind_speed_to_category(wind_speed) >>
    /\ UNCHANGED <<wind_speed, cleanVars, coneVars, radiusVars, pressureVars, df_row,
                   runVars, laterVars>>

InitClean ==
    /\ label \in Labels
    /\ cleaned = <<>>
    /\ IdleExcept("clean")

CleanLabel ==
    /\ cleaned = <<>>
    /\ cleaned' = << process_string(label) >>
    /\ UNCHANGED <<label, classifierVars, coneVars, radiusVars, pressureVars, df_row,
                   runVars, laterVars>>

InitCone ==
    /\ \/ IsTrack(storm_dat, MaxPoints)
       \/ storm_dat \in GapTracks
    /\ cone_call = <<>>
    /\ IdleExcept("cone")

BuildCone ==
    /\ cone_call = <<>>
    /\ cone_call' = << create_uncertainty_cone(storm_dat) >>
    /\ UNCHANGED <<storm_dat, classifierVars, cleanVars, radiusVars, pressureVars,
                   df_row, runVars, laterVars>>

\* Largest forecast hour get_radius is asked for.
MaxHour == 126

\* The basins get_radius is asked for: those of the table, and three that
\* are not in it.
RadiusBasins == {"AL", "EP", "CP", "WP", "IO", "SH", "SL", "XX", "al", ""}

InitRadius ==
    /\ radius_basin \in RadiusBasins
    /\ radius_hour \in 0..MaxHour
    /\ radius = <<>>
    /\ IdleExcept("radius")

GetRadius ==
    /\ radius = <<>>
    /\ radius' = << get_radius(radius_basin, radius_hour) >>
    /\ UNCHANGED <<radius_basin, radius_hour, classifierVars, cleanVars, coneVars,
                   pressureVars, df_row, runVars, laterVars>>

InitPressure ==
    /\ central_pressure \in Pressures
    /\ pressure_category = <<>>
    /\ IdleExcept("pressure")

ClassifyPressure ==
    /\ pressure_category = <<>>
    /\ pressure_category' = << pressure_to_category(central_pressure) >>
    /\ UNCHANGED <<central_pressure, classifierVars, cleanVars, coneVars, radiusVars,
                   df_row, runVars, laterVars>>

\* The MinPressure values of the parsed rows: every pressure, and NaN.
MinPressures == { << p >> : p \in Pressures } \cup { <<>> }

InitParse ==
    /\ \E w \in 0..MaxWind, p \in MinPressures : df_row = << ParsedRow(w, p) >>
    /\ IdleExcept("categorize")

Categorize ==
    /\ df_row # <<>>
    /\ ~df_row[1].categorized
    /\ df_row' = << categorize(df_row[1]) >>
    /\ UNCHANGED <<classifierVars, cleanVars, coneVars, radiusVars, pressureVars, runVars, laterVars>>

InitCoord ==
    /\ \/ \E k \in 0..MaxFieldLen : \E chars \in [1..k -> CoordChars] :
             coord_field = << Text(chars) >>
       \/ \E chars \in EastFields : coord_field = << Text(chars) >>
       \/ coord_field = << NotText >>
    /\ coord = <<>>
    /\ IdleExcept("parse_lat_lon")

ParseCoord ==
    /\ coord_field # <<>>
    /\ coord = <<>>
    /\ coord' = << parse_lat_lon(coord_field[1]) >>
    /\ UNCHANGED <<coord_field, earlierVars, runVars, parseVars, nameVars, recentVars,
                   timeVars, upsertVars, gmailVars>>

InitReadAdeck ==
    /\ \E k \in 0..MaxRecords : \E file \in [1..k -> RawRecords] : dat_file = << file >>
    /\ parsed_gdf = <<>>
    /\ IdleExcept("read_adeck")

ReadAdeck ==
    /\ dat_file # <<>>
    /\ parsed_gdf = <<>>
    /\ parsed_gdf' = << read_adeck_dat_file_to_gdf(dat_file[1]) >>
    /\ UNCHANGED <<dat_file, earlierVars, runVars, coordVars, nameVars, recentVars,
                   timeVars, upsertVars, gmailVars>>

InitName ==
    /\ \E k \in 0..MaxLines : \E lines \in [1..k -> NameTokens] : name_lines = << lines >>
    /\ storm_name = <<>>
    /\ IdleExcept("extract_storm_info")

ExtractStormInfo ==
    /\ name_lines # <<>>
    /\ storm_name = <<>>
    /\ storm_name' = << storm_name_of(name_lines[1]) >>
    /\ UNCHANGED <<name_lines, earlierVars, runVars, coordVars, parseVars, recentVars,
                   timeVars, upsertVars, gmailVars>>

InitRecent ==
    /\ \E k \in 0..MaxRows : \E rows \in [1..k -> DirectoryRows] : csv_rows = << rows >>
    /\ csv_timestamp \in Timestamps
    /\ recent_storms = <<>>
    /\ IdleExcept("get_recent")

GetRecentAdeckPaths ==
    /\ csv_rows # <<>>
    /\ recent_storms = <<>>
    /\ recent_storms' = << get_recent_adeck_paths(csv_rows[1], csv_timestamp) >>
    /\ UNCHANGED <<csv_rows, csv_timestamp, earlierVars, runVars, coordVars, parseVars,
                   nameVars, timeVars, upsertVars, gmailVars>>

InitTimestamp ==
    /\ \E d \in ClockDays, h \in 0..23, m \in ClockMinutes, s \in ClockSeconds :
          clock = << [day |-> d, hour |-> h, minute |-> m, second |-> s] >>
    /\ adjusted = <<>>
    /\ IdleExcept("timestamp")

AdjustTimestamp ==
    /\ clock # <<>>
    /\ adjusted = <<>>
    /\ adjusted' = << adjust_timestamp(clock[1]) >>
    /\ UNCHANGED <<clock, earlierVars, runVars, coordVars, parseVars, nameVars,
                   recentVars, upsertVars, gmailVars>>

\* The directory before the first call: no CSV, which is read as no rows.
InitUpsert ==
    /\ storm_csv = << <<>> >>
    /\ upsert_calls = 0
    /\ last_upsert = <<>>
    /\ IdleExcept("upsert")

DownloadAndUpdate ==
    /\ storm_csv # <<>>
    /\ upsert_calls < MaxCalls
    /\ \E file_name \in DatFiles, info \in StormInfos, downloaded \in BOOLEAN :
          /\ storm_csv' = << download_and_update_storm_data(storm_csv[1], file_name,
                                                            info, downloaded) >>
          /\ last_upsert' = << [before |-> storm_csv[1], file_name |-> file_name,
                                info |-> info, downloaded |-> downloaded] >>
    /\ upsert_calls' = upsert_calls + 1
    /\ UNCHANGED <<earlierVars, runVars, coordVars, parseVars, nameVars, recentVars,
                   timeVars, gmailVars>>

InitGmail ==
    /\ token_json \in TokenFiles
    /\ creds = <<>>
    /\ gmail_pc = "load"
    /\ gmail_calls = 1
    /\ service = <<>>
    /\ IdleExcept("gmail")

gmailOthers ==
    <<earlierVars, runVars, coordVars, parseVars, nameVars, recentVars, timeVars, upsertVars>>

\* Lines 36-45: load the stored token.  ValueError and JSONDecodeError
\* remove the file; another exception leaves get_gmail_service.
LoadToken ==
    /\ gmail_pc = "load"
    /\ IF token_json[1] = "absent"
       THEN gmail_pc' = "check" /\ UNCHANGED <<token_json, creds>>
       ELSE IF token_json[1] = "corrupt"
       THEN gmail_pc' = "check" /\ token_json' = << "absent" >> /\ UNCHANGED creds
       ELSE IF token_json[1] = "unreadable"
       THEN gmail_pc' = "raised" /\ UNCHANGED <<token_json, creds>>
       ELSE gmail_pc' = "check" /\ creds' = << token_json[2] >> /\ UNCHANGED token_json
    /\ UNCHANGED <<gmail_calls, service, gmailOthers>>

\* Lines 48-57: credentials that are expired and have a refresh token are
\* refreshed and saved; when either fails they are dropped.
RefreshToken ==
    /\ gmail_pc = "check"
    /\ creds # <<>> /\ ~valid(creds[1])
    /\ creds[1].expired /\ creds[1].refresh_token
    /\ \E outcome \in {"refreshed", "refresh_failed", "save_failed"} :
          IF outcome = "refreshed"
          THEN /\ creds' = << Credentials(TRUE, FALSE, TRUE) >>
               /\ token_json' = << "credentials", Credentials(TRUE, FALSE, TRUE) >>
               /\ gmail_pc' = "build"
          ELSE /\ creds' = <<>>
               /\ gmail_pc' = "flow"
               /\ UNCHANGED token_json
    /\ UNCHANGED <<gmail_calls, service, gmailOthers>>

\* Lines 47-48 and 59: nothing to refresh.  Without credentials the consent
\* flow is next; with credentials, valid or not, the service is built.
SkipRefresh ==
    /\ gmail_pc = "check"
    /\ ~(creds # <<>> /\ ~valid(creds[1]) /\ creds[1].expired /\ creds[1].refresh_token)
    /\ gmail_pc' = IF creds = <<>> THEN "flow" ELSE "build"
    /\ UNCHANGED <<token_json, creds, gmail_calls, service, gmailOthers>>

\* Lines 59-84: the interactive consent flow; its exceptions, and those of
\* saving the token, are raised again.
ConsentFlow ==
    /\ gmail_pc = "flow"
    /\ \/ \E r \in BOOLEAN :
             /\ creds' = << Credentials(TRUE, FALSE, r) >>
             /\ token_json' = << "credentials", Credentials(TRUE, FALSE, r) >>
             /\ gmail_pc' = "build"
       \/ /\ gmail_pc' = "raised"
          /\ UNCHANGED <<token_json, creds>>
    /\ UNCHANGED <<gmail_calls, service, gmailOthers>>

\* Line 87
BuildService ==
    /\ gmail_pc = "build"
    /\ service' = << creds[1] >>
    /\ gmail_pc' = "done"
    /\ UNCHANGED <<token_json, creds, gmail_calls, gmailOthers>>

\* The next call of get_gmail_service finds token.json as the last one
\* left it; the stored access token may have expired meanwhile.
NextCall ==
    /\ gmail_pc \in {"done", "raised"}
    /\ gmail_calls < MaxServiceCalls
    /\ gmail_calls' = gmail_calls + 1
    /\ gmail_pc' = "load"
    /\ creds' = <<>>
    /\ service' = <<>>
    /\ \/ UNCHANGED token_json
       \/ /\ token_json[1] = "credentials"
          /\ token_json' = << "credentials", [token_json[2] EXCEPT !.expired = TRUE] >>
    /\ UNCHANGED gmailOthers

NextGmail ==
    \/ LoadToken
    \/ RefreshToken
    \/ SkipRefresh
    \/ ConsentFlow
    \/ BuildService
    \/ NextCall

\* The run, from the start of main.
Init ==
    /\ variant \in {"V3", "app"}
    /\ \E fault \in {"none", "portfolio", "directory"}, portfolio \in Portfolios,
          k \in 0..MaxStorms :
          \E entries \in [1..k -> StormMenu] :
             inputs = [fault |-> fault, portfolio |-> portfolio,
                       directory |-> Directory(entries)]
    /\ pc = "load"
    /\ loop_i = 0
    /\ AOIs = <<>>
    /\ recent_adeck_paths = <<>>
    /\ cones = <<>>
    /\ error_msgs = <<>>
    /\ error_data = <<>>
    /\ intercepts = <<>>
    /\ affected_clients = <<>>
    /\ exception = ""
    /\ sent = <<>>
    /\ IdleExcept("main")

Next ==
    \/ LoadInputs
    \/ ProcessStorm
    \/ ReportErrors
    \/ OverlayCone
    \/ CheckImpacts
    \/ AlertPair
    \/ Finish
    \/ HandleError

vars == <<pureVars, runVars>>

Spec == Init /\ [][Next]_vars
SpecClassifier == InitClassifier /\ [][ClassifyWind]_vars
SpecClean == InitClean /\ [][CleanLabel]_vars
SpecCone == InitCone /\ [][BuildCone]_vars
SpecRadius == InitRadius /\ [][GetRadius]_vars
SpecPressure == InitPressure /\ [][ClassifyPressure]_vars
SpecParse == InitParse /\ [][Categorize]_vars
SpecCoord == InitCoord /\ [][ParseCoord]_vars
SpecReadAdeck == InitReadAdeck /\ [][ReadAdeck]_vars
SpecName == InitName /\ [][ExtractStormInfo]_vars
SpecRecent == InitRecent /\ [][GetRecentAdeckPaths]_vars
SpecTimestamp == InitTimestamp /\ [][AdjustTimestamp]_vars
SpecUpsert == InitUpsert /\ [][DownloadAndUpdate]_vars
SpecGmail == InitGmail /\ [][NextGmail]_vars

(***************************************************************************)
(* Properties: intensity classifier                                        *)
(***************************************************************************)

\* The half-open wind scale: [0,34) [34,64) [64,83) [83,96) [96,113)
\* [113,137) [137,inf).
WindScale(w) ==
    IF w < 34 THEN [name |-> "Tropical Depression", number |-> -1]
    ELSE IF w < 64 THEN [name |-> "Tropical Storm", number |-> 0]
    ELSE IF w < 83 THEN [name |-> "Category 1", number |-> 1]
    ELSE IF w < 96 THEN [name |-> "Category 2", number |-> 2]
    ELSE IF w < 113 THEN [name |-> "Category 3", number |-> 3]
    ELSE IF w < 137 THEN [name |-> "Category 4", number |-> 4]
    ELSE [name |-> "Category 5", number |-> 5]

\* C1: for every wind speed w >= 0, wind_speed_to_category(w) is never
\* 'Unknown' and is the category of the half-open scale, with its ordinal.
C1_WindScaleIsTotal ==
    (category # <<>> /\ wind_speed >= 0)
        => /\ category[1].name # "Unknown"
           /\ category[1] = WindScale(wind_speed)

\* The pressure scale: >= 990, [980,990), [965,980), [945,965), [920,945),
\* < 920.
PressureScale(p) ==
    IF p >= 990 THEN [name |-> "Tropical Storm", number |-> 0]
    ELSE IF p >= 980 THEN [name |-> "Category 1", number |-> 1]
    ELSE IF p >= 965 THEN [name |-> "Category 2", number |-> 2]
    ELSE IF p >= 945 THEN [name |-> "Category 3", number |-> 3]
    ELSE IF p >= 920 THEN [name |-> "Category 4", number |-> 4]
    ELSE [name |-> "Category 5", number |-> 5]

\* C18 as stated: for every pressure p, pressure_to_category(p) follows the
\* pressure scale, with Category 5 for every p below 920 without a lower
\* limit.
C18_PressureScaleWithoutFloor ==
    pressure_category # <<>> => pressure_category[1] = PressureScale(central_pressure)

\* C18 as amended: for every pressure p >= 0, pressure_to_category(p) follows
\* the pressure scale, with Category 5 for 0 <= p < 920; for p < 0 it is
\* ('Unknown', -999).
C18_PressureScaleFromZero ==
    pressure_category # <<>>
        => IF central_pressure >= 0
           THEN pressure_category[1] = PressureScale(central_pressure)
           ELSE pressure_category[1] = [name |-> "Unknown", number |-> -999]

C18_Witness ==
    /\ pressure_category # <<>>
    /\ central_pressure < 0
    /\ pressure_category[1].name = "Unknown"

\* C19 as stated: for all pressures p1 <= p2 the ordinal of p2 is at most
\* the ordinal of p1.
C19_MonotonicForAllPressures ==
    pressure_category # <<>>
        => \A p2 \in Pressures :
              central_pressure <= p2
                 => pressure_to_category(p2).number <= pressure_category[1].number

\* C19 as amended: for all pressures 0 <= p1 <= p2 the ordinal of p2 is at
\* most the ordinal of p1.
C19_MonotonicFromZero ==
    (pressure_category # <<>> /\ central_pressure >= 0)
        => \A p2 \in Pressures :
              central_pressure <= p2
                 => pressure_to_category(p2).number <= pressure_category[1].number

\* The lowest pressure, below every threshold.
C19_Witness ==
    /\ pressure_category # <<>>
    /\ central_pressure = 0
    /\ pressure_category[1].number = 5
    /\ pressure_to_category(MaxPressure).number = 0

Categorized == df_row # <<>> /\ df_row[1].categorized

\* C20: for every parsed forecast point maximum_category is the larger of
\* the wind-based and the pressure-based ordinal, and Category is the
\* wind-based label, also when a scale answers 'Unknown' (-999).
C20_MaximumCategoryAndWindLabel ==
    Categorized
        => LET row == df_row[1]
               wind == row.Category_number_windspeed_based
               pressure == row.Category_number_pressure_based
           IN  /\ wind = wind_speed_to_category(row.MaxWindSpeed).number
               /\ row.MinPressure # <<>>
                    => pressure = pressure_to_category(row.MinPressure[1]).number
               /\ row.maximum_category \in {wind, pressure}
               /\ row.maximum_category >= wind
               /\ row.maximum_category >= pressure
               /\ row.Category = wind_speed_to_category(row.MaxWindSpeed).name
               /\ row.Category = row.Category_based_on_windspeed

\* The wind scale answers 'Unknown' and the pressure scale does not.
C20_Witness ==
    /\ Categorized
    /\ df_row[1].Category_number_windspeed_based = -999
    /\ df_row[1].Category_number_pressure_based = 3
    /\ df_row[1].maximum_category = 3
    /\ df_row[1].Category = "Unknown"

\* The field without surrounding whitespace, its last character and what
\* precedes it.
FieldText == strip(coord_field[1].text)
FieldBody == SubSeq(FieldText, 1, Len(FieldText) - 1)

\* text is an optional sign and decimal digits, with whitespace around.
IsNumeric(text) == float(text) # <<>>

\* C23: a direction-suffixed field of tenths of a degree decodes to
\* value/10, negated for S or W and with the sign unchanged for N or E; a
\* malformed field (body not numeric, suffix only, empty, not text) gives a
\* missing value.  (parse_lat_lon has no other outcome: it never raises.)
C23_DecodesTenthsWithDirection ==
    coord # <<>>
        => /\ ~coord_field[1].is_str => coord[1] = <<>>
           /\ (coord_field[1].is_str /\ FieldText = <<>>) => coord[1] = <<>>
           /\ (coord_field[1].is_str /\ FieldText # <<>>
                 /\ FieldText[Len(FieldText)] \in Directions)
                => IF IsNumeric(FieldBody)
                   THEN LET value == float(FieldBody)[1]
                            flip == FieldText[Len(FieldText)] \in {"S", "W"}
                            signed == IF flip THEN 0 - value ELSE value
                            degrees == coord[1][1]
                        IN  /\ coord[1] # <<>>
                            /\ 10 * degrees.whole + degrees.tenth
                                 = (IF signed < 0 THEN 0 - signed ELSE signed)
                            /\ degrees.tenth \in 0..9
                            /\ degrees.negative <=> signed < 0
                   ELSE coord[1] = <<>>
           /\ (coord_field[1].is_str /\ FieldText # <<>>
                 /\ FieldText[Len(FieldText)] \notin Directions
                 /\ ~IsNumeric(FieldText))
                => coord[1] = <<>>

\* "-11W": a negative body with a suffix that negates.
C23_Witness ==
    /\ coord # <<>>
    /\ coord_field[1] = Text(<< "-", "1", "1", "W" >>)
    /\ coord[1] = << [negative |-> FALSE, whole |-> 1, tenth |-> 1] >>

\* The parser has returned rows.
Parsed == parsed_gdf # <<>> /\ parsed_gdf[1].outcome = "gdf"

\* C21: every point of the parser's output has forecast horizon >= 0 and a
\* non-zero latitude and a non-zero longitude; no record with a negative
\* horizon survives parsing.
C21_HorizonNonNegativeAndNotOrigin ==
    Parsed
        => \A k \in 1..Len(parsed_gdf[1].rows) :
              /\ parsed_gdf[1].rows[k].ForecastHour >= 0
              /\ parsed_gdf[1].rows[k].Latitude # ZeroDegrees
              /\ parsed_gdf[1].rows[k].Longitude # ZeroDegrees

\* A record standing alone has a present and valid latitude, longitude, wind
\* speed, issuance timestamp and horizon, and neither coordinate is 0.
IsGoodRecord(record) ==
    /\ parse_lat_lon(Text(record.Latitude)) \notin { <<>>, << ZeroDegrees >> }
    /\ parse_lat_lon(Text(record.Longitude)) \notin { <<>>, << ZeroDegrees >> }
    /\ record.MaxWindSpeed.kind = "number"
    /\ record.ForecastHour.kind = "number"
    /\ record.DateTime = "valid"

\* C22: the parser drops exactly the records with a missing or invalid
\* latitude, longitude, wind speed, issuance timestamp or horizon, or with a
\* latitude or longitude equal to 0; every other record is kept, and a bad
\* record never stops the parsing of the others.
C22_DropsExactlyBadRecords ==
    parsed_gdf # <<>>
        => /\ parsed_gdf[1].outcome \in {"gdf", "None"}
           /\ { parsed_gdf[1].rows[k].index : k \in 1..Len(parsed_gdf[1].rows) }
                = { i \in 1..Len(dat_file[1]) : IsGoodRecord(dat_file[1][i]) }

\* The candidates of a file: its names after the removal of basin codes,
\* tokens with digits and number words, and of INVEST when another name is
\* present.
Candidates ==
    LET keys == FilterKeys(DictKeys(name_lines[1]))
        names == IF keys # << INVEST >> THEN Remove(keys, INVEST) ELSE keys
    IN  names

\* The candidates that occur on the most lines.
MostFrequent ==
    { k \in 1..Len(Candidates) :
        \A j \in 1..Len(Candidates) :
            DictCount(name_lines[1], Candidates[j]) <= DictCount(name_lines[1], Candidates[k]) }

\* C24: the inferred name is the candidate that occurs on the most lines;
\* only when counts tie is it the unique basin-code-stripped form, else the
\* last candidate encountered.
C24_MajorityCandidate ==
    (storm_name # <<>> /\ Len(Candidates) > 0)
        => LET stripped == { cleaned_name(Candidates[k]) : k \in MostFrequent }
           IN  storm_name[1] =
                 title(IF Cardinality(MostFrequent) = 1
                       THEN Candidates[CHOOSE k \in MostFrequent : TRUE]
                       ELSE IF Cardinality(stripped) = 1
                       THEN CHOOSE name \in stripped : TRUE
                       ELSE LastOf(Candidates))

\* C25: get_recent_adeck_paths(file, t) returns exactly the storms whose end
\* date lies within the 24 hours before t; a storm whose last advisory is at
\* t itself is returned.
C25_ReturnsStormsOfLast24Hours ==
    recent_storms # <<>>
        => { recent_storms[1][k] : k \in 1..Len(recent_storms[1]) }
             = { i \in 1..Len(csv_rows[1]) :
                   /\ csv_rows[1][i].Storm_End_Date # <<>>
                   /\ csv_rows[1][i].Storm_End_Date[1] >= csv_timestamp - 24
                   /\ csv_rows[1][i].Storm_End_Date[1] <= csv_timestamp }

(***************************************************************************)
(* Properties: label cleaning                                              *)
(***************************************************************************)

\* C2 as stated: cleaning "Miami Office 12B Annex" yields exactly "Miami".
C2_MiamiCleansToMiami ==
    (label = MiamiLabel /\ cleaned # <<>>)
        => cleaned[1] = << "M", "i", "a", "m", "i" >>

\* C2 as amended: cleaning "Miami Office 12B Annex" yields exactly
\* "Miami Office": the words before "12B" are kept, "12B" and "Annex" are
\* dropped.
C2_MiamiCleansToMiamiOffice ==
    (label = MiamiLabel /\ cleaned # <<>>)
        => cleaned[1] = << "M", "i", "a", "m", "i", " ", "O", "f", "f", "i", "c", "e" >>

C2_Witness == label = MiamiLabel /\ cleaned # <<>>

\* C14: cleaning is idempotent: cleaning an already cleaned label returns it
\* unchanged, for every label (first token with a digit, empty label,
\* repeated whitespace included).
C14_CleanIsIdempotent ==
    cleaned # <<>> => process_string(cleaned[1]) = cleaned[1]

\* A label with repeated whitespace whose first token has a digit and that
\* cleaning changes.
C14_Witness ==
    /\ cleaned # <<>>
    /\ split(label) # <<>>
    /\ HasDigit(split(label)[1])
    /\ \E i \in 1..(Len(label) - 1) : label[i] \in Whitespace /\ label[i + 1] \in Whitespace
    /\ cleaned[1] # label
    /\ cleaned[1] # <<>>

\* The place of the first token after the first that contains a digit; one
\* past the last token when there is none.
FirstLaterDigitToken(words) ==
    LET later == { i \in 2..Len(words) : HasDigit(words[i]) }
    IN  IF later = {} THEN Len(words) + 1
        ELSE CHOOSE i \in later : \A k \in later : i <= k

\* C15: the cleaned label is the first token followed by the later tokens up
\* to, not including, the first later token that contains a digit; the first
\* token is kept even when it contains a digit.
C15_KeepsTokensBeforeFirstLaterDigit ==
    cleaned # <<>>
        => LET words == split(label)
           IN  /\ cleaned[1] = join(SubSeq(words, 1, FirstLaterDigitToken(words) - 1))
               /\ words # <<>> => /\ split(cleaned[1]) # <<>>
                                  /\ split(cleaned[1])[1] = words[1]

\* A first token with a digit, then a token with a digit, then one more.
C15_Witness ==
    /\ cleaned # <<>>
    /\ LET words == split(label)
       IN  /\ Len(words) = 3
           /\ HasDigit(words[1])
           /\ HasDigit(words[2])
           /\ cleaned[1] = words[1]

(***************************************************************************)
(* Properties: cone builder                                                *)
(***************************************************************************)

\* The forecast sources of a track.
SourcesOf(gdf) == { gdf.rows[i].ModelName : i \in 1..Len(gdf.rows) }
PreferredSources == { models_to_try[i] : i \in 1..Len(models_to_try) }

\* The rows of the first preferred source that has any, in file order.
AuthoritativeRows(gdf) == filter_adeck_gdf_for_official_model(gdf).rows

HasRadius(row) == get_radius(row.Basin, row.ForecastHour) # <<>>

\* The uncertainty disk of a row that has a radius entry.
Disk(row) == buffer(row.geometry, get_radius(row.Basin, row.ForecastHour)[1] * MetersPerNM)

\* The rows that give a buffer.
UsableRows(gdf) == SelectSeq(AuthoritativeRows(gdf), HasRadius)

Returned == cone_call # <<>> /\ ~cone_call[1].raised

\* C3: when the track has no record from any source of the priority list,
\* create_uncertainty_cone returns an empty cone as a normal result: it does
\* not raise.
C3_NoPreferredSourceReturnsEmptyCone ==
    (cone_call # <<>> /\ SourcesOf(storm_dat) \cap PreferredSources = {})
        => /\ ~cone_call[1].raised
           /\ cone_call[1].cone.rows = <<>>

Neighbours(p) == { q \in Cells : q # p /\ DistSq(p, q) <= 2 }

RECURSIVE Flood(_, _)
Flood(seen, region) ==
    LET next == seen \cup { q \in region : \E p \in seen : q \in Neighbours(p) }
    IN  IF next = seen THEN seen ELSE Flood(next, region)

\* region is one connected piece.
Connected(region) ==
    region # {} /\ Flood({ CHOOSE p \in region : TRUE }, region) = region

\* C9: for a track with N >= 2 authoritative points that all have a radius
\* entry, the cone is one connected region that contains every buffer disk,
\* so its area is at least that of each disk; for horizons 12 and 24 in
\* basin AL it is non-empty and covers the 26 nm disk.
C9_ConeCoversEveryDisk ==
    LET auth == AuthoritativeRows(storm_dat)
        usable == UsableRows(storm_dat)
    IN  (cone_call # <<>> /\ Len(auth) >= 2 /\ Len(usable) = Len(auth))
        => /\ ~cone_call[1].raised
           /\ Len(cone_call[1].cone.rows) = 1
           /\ LET cone == cone_call[1].cone.rows[1].geometry
              IN  /\ Connected(cone)
                  /\ \A i \in 1..Len(auth) :
                        /\ Disk(auth[i]) \subseteq cone
                        /\ Cardinality(cone) >= Cardinality(Disk(auth[i]))
                  /\ \A i \in 1..Len(auth) :
                        (auth[i].Basin = "AL" /\ auth[i].ForecastHour = 12)
                            => /\ cone # {}
                               /\ buffer(auth[i].geometry, 26 * MetersPerNM) \subseteq cone

C9_Witness ==
    /\ Returned
    /\ LET auth == AuthoritativeRows(storm_dat)
       IN  /\ Len(auth) = 3
           /\ storm_dat.rows[1].Basin = "AL"
           /\ { auth[i].ForecastHour : i \in 1..3 } = {12, 24, 36}
           /\ auth[1].ForecastHour = 36

\* The basins and the forecast horizons of the radius table.
TableBasins == {"AL", "EP", "CP", "WP", "IO", "SH", "SL"}
FixedHorizons == {12, 24, 36, 48, 60, 72, 96, 120}

\* C16: for a basin and a horizon of the radius table get_radius is a
\* positive number of nautical miles; for any other horizon (0 included) or
\* basin it is None, never a default value.
C16_RadiusPositiveOrNone ==
    radius # <<>>
        => IF radius_basin \in TableBasins /\ radius_hour \in FixedHorizons
           THEN radius[1] # <<>> /\ radius[1][1] > 0
           ELSE radius[1] = <<>>

\* Horizon 0 in a basin of the table: None.
C16_Witness ==
    /\ radius # <<>>
    /\ radius_basin = "EP"
    /\ radius_hour = 0
    /\ radius[1] = <<>>

\* The place of a source in the priority list.
Priority(model) == CHOOSE i \in 1..Len(models_to_try) : models_to_try[i] = model

\* The source of the priority list that comes first among those with a
\* record in the track.
FirstPreferred(gdf) ==
    CHOOSE m \in SourcesOf(gdf) \cap PreferredSources :
        \A o \in SourcesOf(gdf) \cap PreferredSources : Priority(m) <= Priority(o)

\* The records of one source, in file order.
RecordsOf(gdf, model) ==
    LET IsModel(r) == r.ModelName = model IN SelectSeq(gdf.rows, IsModel)

Orderings(n) == { f \in [1..n -> 1..n] : \A i, j \in 1..n : f[i] = f[j] => i = j }

\* C17: when some source of the priority list has a record in the track, the
\* authoritative track is the records of exactly one source, the first of
\* the list that has any; the records of every other source are excluded;
\* the builder consumes them by ascending forecast horizon.
C17_AuthoritativeTrackIsFirstPreferredSorted ==
    (cone_call # <<>> /\ SourcesOf(storm_dat) \cap PreferredSources # {})
        => LET chosen == RecordsOf(storm_dat, FirstPreferred(storm_dat))
               usable == SelectSeq(chosen, HasRadius)
               consumed == cone_call[1].buffered_geometries
           IN  /\ ~cone_call[1].raised
               /\ filter_adeck_gdf_for_official_model(storm_dat).rows = chosen
               /\ chosen # <<>>
               /\ Len(consumed) = Len(usable)
               /\ \E f \in Orderings(Len(usable)) :
                     /\ \A i \in 1..Len(usable) : consumed[i] = Disk(usable[f[i]])
                     /\ \A i, j \in 1..Len(usable) :
                           i < j => usable[f[i]].ForecastHour <= usable[f[j]].ForecastHour

\* A track that begins with a record of the third source of the list and
\* goes on with two of the first, the later horizon before the earlier.
C17_Witness ==
    /\ Returned
    /\ Len(storm_dat.rows) = 3
    /\ storm_dat.rows[1].ModelName = "AEMN"
    /\ storm_dat.rows[2].ModelName = "OFCL"
    /\ storm_dat.rows[3].ModelName = "OFCL"
    /\ storm_dat.rows[2].ForecastHour = 24
    /\ storm_dat.rows[3].ForecastHour = 12
    /\ storm_dat.rows[1].Basin = "AL"
    /\ Len(cone_call[1].buffered_geometries) = 2

\* C26: with k usable buffers in ascending horizon order the builder makes
\* max(0, k-1) bridging hulls, the i-th covering buffers i and i+1 and
\* nothing outside their hull; a point without a radius adds no buffer, and
\* its usable neighbours are bridged to each other; no other pair is bridged.
C26_BridgesAdjacentBuffersOnly ==
    Returned
        => LET usable == sort_values(UsableRows(storm_dat))
               k == Len(usable)
               buffers == cone_call[1].buffered_geometries
               hulls == cone_call[1].convex_hull_segments
           IN  /\ Len(buffers) = k
               /\ Len(hulls) = (IF k = 0 THEN 0 ELSE k - 1)
               /\ \A i \in 1..Len(hulls) :
                     /\ Disk(usable[i]) \cup Disk(usable[i + 1]) \subseteq hulls[i]
                     /\ hulls[i] \subseteq convex_hull(Disk(usable[i]) \cup Disk(usable[i + 1]))

\* The points at 12 and 36 hours bridged over the point at 30 hours, which
\* comes between them in the file.
C26_Witness ==
    /\ Returned
    /\ Len(storm_dat.rows) = 3
    /\ storm_dat.rows[1].ForecastHour = 36
    /\ storm_dat.rows[2].ForecastHour = 30
    /\ storm_dat.rows[3].ForecastHour = 12
    /\ storm_dat.rows[1].geometry = PositionAt(2, 36)
    /\ Len(cone_call[1].buffered_geometries) = 2
    /\ Len(cone_call[1].convex_hull_segments) = 1
    /\ Disk(storm_dat.rows[3]) \cup Disk(storm_dat.rows[1])
         \subseteq cone_call[1].convex_hull_segments[1]

(***************************************************************************)
(* Properties: the run                                                     *)
(***************************************************************************)

Terminal == pc \in {"done", "raised"}

\* The report was handed to the mail transport / and the send returned.
Attempted(kind) == \E i \in 1..Len(sent) : sent[i].report = kind
Sent(kind) == \E i \in 1..Len(sent) : sent[i].report = kind /\ sent[i].ok
Attempts(kind) == Cardinality({ i \in 1..Len(sent) : sent[i].report = kind })

\* The mail transport delivered every report of the run proper.
MailWorks == \A i \in 1..Len(sent) : sent[i].report # "error" => sent[i].ok

\* The storm loop is over (or was never entered).
StormLoopOver == pc \notin {"idle", "load", "storms"}

\* C5: when there are active storms and every one of them yields no cone,
\* the run ends normally, the overlay and alert stage raises nothing and
\* the general error report is not sent.
C5_NoConesIsNotAnException ==
    (Terminal /\ MailWorks /\ recent_adeck_paths # <<>> /\ cones = <<>>)
        => /\ pc = "done"
           /\ exception = ""
           /\ ~Attempted("error")

\* Cone construction fails for the storm: unreadable track, no data at the
\* run's timestamp, or an exception in the builder.
ConeFails(row) ==
    \/ ~row.file.readable
    \/ row.file.at_timestamp = <<>>
    \/ create_uncertainty_cone(Frame(row.file.at_timestamp)).raised

RowsOfStorm(rows, path) ==
    LET IsStorm(r) == r.adeck_path_parquet = path IN SelectSeq(rows, IsStorm)

\* The cone geometries the builder gives for the rows of each track file of
\* the menu, cell by cell; raised when it gives none.
BuiltFromFile ==
    [ file \in { entry.file : entry \in StormMenu }
        |-> LET call == create_uncertainty_cone(Frame(file.at_timestamp))
            IN  [raised |-> call.raised,
                 geometries |->
                    [ i \in 1..Len(call.cone.rows)
                        |-> UNION { IF c \in call.cone.rows[i].geometry THEN {c} ELSE {}
                                    : c \in Cells } ]] ]

\* The storms the loop has dealt with so far.
Processed == IF pc = "storms" THEN loop_i ELSE Len(recent_adeck_paths)

\* C6: whichever storms fail, every storm is processed: a failed storm gives
\* one error message and no cone, a successful one gives no message and its
\* cone.
C6_PerStormIsolation ==
    \A i \in 1..Processed :
        LET row == recent_adeck_paths[i]
            msgs == RowsOfStorm(error_msgs, row.adeck_path_parquet)
            mine == RowsOfStorm(cones, row.adeck_path_parquet)
            call == BuiltFromFile[row.file]
        IN  IF ~row.file.readable \/ row.file.at_timestamp = <<>> \/ call.raised
            THEN Len(msgs) = 1 /\ mine = <<>>
            ELSE /\ msgs = <<>>
                 /\ Column(mine, "geometry") = call.geometries

\* A storm whose builder raised, and a successful one processed after it.
C6_Witness ==
    /\ StormLoopOver
    /\ Len(recent_adeck_paths) = 2
    /\ recent_adeck_paths[1].file = FileNoSource
    /\ ~ConeFails(recent_adeck_paths[2])
    /\ Len(error_msgs) = 1
    /\ Len(cones) = 1

\* C7 as stated: no run sends more than one of the no-storms, no-impacts and
\* per-storm-errors reports.
C7_AtMostOneReportPerRun ==
    Cardinality({ k \in {"no_storms", "no_impacts", "errors"} : Sent(k) }) <= 1

\* How a run ends.
EndsNoStorms == Sent("no_storms")
EndsNoImpacts == Sent("no_impacts")
EndsWithAlerts == pc = "done" /\ exception = "" /\ affected_clients # <<>>
                  /\ affected_clients[1] # <<>>
EndsInError == exception # ""

\* C7 as amended: a run ends in exactly one of 'no storms', 'no impacts',
\* impact alerts or the general script error; the no-storms report is never
\* accompanied by another report and the no-impacts report never by an alert;
\* the per-storm-errors report is not a terminal outcome: it is handed to the
\* mail transport once, after the storm loop, exactly when some storm failed,
\* and the run goes on.
C7_OutcomesAndReports ==
    /\ Terminal =>
          Cardinality({ o \in {"no_storms", "no_impacts", "alerts", "error"} :
                \/ o = "no_storms" /\ EndsNoStorms
                \/ o = "no_impacts" /\ EndsNoImpacts
                \/ o = "alerts" /\ EndsWithAlerts
                \/ o = "error" /\ EndsInError }) = 1
    /\ \A k \in {"no_storms", "no_impacts", "errors", "error"} : Attempts(k) <= 1
    /\ Sent("no_storms") => /\ recent_adeck_paths = <<>>
                            /\ Len(sent) = 1
    /\ Sent("no_impacts") => ~Attempted("map")
    /\ StormLoopOver => (Attempted("errors") <=> error_msgs # <<>>)
    /\ ~StormLoopOver => ~Attempted("errors")

\* Both the per-storm-errors and the no-impacts report were sent.
C7_Witness == Terminal /\ Sent("errors") /\ Sent("no_impacts")

\* The buffered geometry of the portfolio's a-th AOI.
BufferedAOI(a) == buffer_degrees(inputs.portfolio[a].geometry, BufferTenths)

NoAOIMeetsACone ==
    \A a \in 1..Len(inputs.portfolio), j \in 1..Len(cones) :
        BufferedAOI(a) \cap cones[j].geometry = {}

\* C8: with at least one active storm and no buffered AOI intersecting any
\* cone the run ends with the no-impacts report and no alert; the no-storms
\* report is sent only for an empty active-storm list, with no cone built and
\* no overlay run; the two never coincide.
C8_NoImpactsVersusNoStorms ==
    (Terminal /\ MailWorks)
        => /\ (recent_adeck_paths # <<>> /\ NoAOIMeetsACone)
                => (Sent("no_impacts") /\ ~Attempted("map"))
           /\ Sent("no_storms")
                => (recent_adeck_paths = <<>> /\ cones = <<>> /\ intercepts = <<>>
                    /\ affected_clients = <<>>)
           /\ ~(Sent("no_storms") /\ Sent("no_impacts"))

\* C10: an AOI whose 0.7-degree buffered geometry intersects no storm's cone
\* is referenced by no intercept row, however many cones were overlaid and
\* in whatever order.
C10_OverlaySoundness ==
    \A a \in 1..Len(inputs.portfolio) :
        (\A j \in 1..Len(cones) : BufferedAOI(a) \cap cones[j].geometry = {})
            => \A r \in 1..Len(intercepts) : intercepts[r].aoi # a

\* Two cones overlaid, some AOI hit and some AOI hit by none.
C10_Witness ==
    /\ pc = "overlay"
    /\ loop_i = 2
    /\ Len(cones) = 2
    /\ cones[1].geometry # cones[2].geometry
    /\ intercepts # <<>>
    /\ \E a \in 1..Len(inputs.portfolio) :
          /\ \A j \in 1..Len(cones) : BufferedAOI(a) \cap cones[j].geometry = {}
          /\ \A r \in 1..Len(intercepts) : intercepts[r].aoi # a

\* The overlay loop has gone over every cone.
AfterOverlayLoop == (pc = "overlay" /\ loop_i = Len(cones)) \/ pc = "alerts"

\* The distinct cleaned client names of the intersection rows.
ClientsOf(rows) == { rows[r].ClientName : r \in 1..Len(rows) }

\* C11: after the overlay loop over the cones of the batch, the affected
\* clients are exactly the distinct cleaned client names of the intersection
\* rows, also when the overlay of some cone raised.
C11_AffectedClientsAreInterceptClients ==
    (AfterOverlayLoop /\ cones # <<>>)
        => /\ affected_clients # <<>>
           /\ { affected_clients[1][i] : i \in 1..Len(affected_clients[1]) }
                = ClientsOf(intercepts)

\* The cones frame after the storm loop went over rows in their order.
RECURSIVE StormLoopCones(_)
StormLoopCones(rows) ==
    IF rows = <<>> THEN <<>>
    ELSE LET before == StormLoopCones(SubSeq(rows, 1, Len(rows) - 1))
             row == rows[Len(rows)]
         IN  IF ConeFails(row) THEN before ELSE concat(storm_cone(row), before)

\* The intercepts frame after the overlay loop went over cone_rows in their
\* order with no overlay raising.
RECURSIVE OverlayLoopIntercepts(_, _)
OverlayLoopIntercepts(aois, cone_rows) ==
    IF cone_rows = <<>> THEN <<>>
    ELSE overlay_iteration(aois, cone_rows[Len(cone_rows)],
                           OverlayLoopIntercepts(aois, SubSeq(cone_rows, 1, Len(cone_rows) - 1)))

Reverse(seq) == [ i \in 1..Len(seq) |-> seq[Len(seq) + 1 - i] ]
Range(seq) == { seq[i] : i \in 1..Len(seq) }

\* What a run over the storms in the given order aggregates: the cones, the
\* affected clients and the alerts (client, storm, track read).
Aggregated(aois, rows) ==
    LET cone_rows == StormLoopCones(rows)
        intercept_rows == OverlayLoopIntercepts(aois, cone_rows)
        clients == unique(Column(intercept_rows, "ClientName"))
    IN  [cones |-> Range(cone_rows),
         affected_clients |-> Range(clients),
         alerts |-> Range(AlertPairs(intercept_rows, clients))]

\* This run's overlay loop completed every iteration.
NoOverlayRaised == intercepts = OverlayLoopIntercepts(AOIs, cones)

\* C12: processing the active storms in another order gives the same cones,
\* the same affected clients and the same alerts per (client, storm) with the
\* same track reference, also when two active storms share a name.
C12_OrderIndependentAggregation ==
    (pc = "alerts" /\ NoOverlayRaised)
        => /\ Aggregated(AOIs, recent_adeck_paths)
                = [cones |-> Range(cones),
                   affected_clients |-> Range(affected_clients[1]),
                   alerts |-> Range(AlertPairs(intercepts, affected_clients[1]))]
           /\ Aggregated(AOIs, Reverse(recent_adeck_paths))
                = Aggregated(AOIs, recent_adeck_paths)

\* The portfolio or the storm directory cannot be read, or there are active
\* storms and the track file of every one of them is unreadable.
UnrecoverableInput ==
    \/ inputs.fault \in {"portfolio", "directory"}
    \/ LET recent == SelectSeq(inputs.directory, NotInvest)
       IN  /\ recent # <<>>
           /\ \A i \in 1..Len(recent) : ~recent[i].file.readable

\* C13: an unrecoverable input error reaches the caller of the run as a
\* fatal failure: main does not return normally, and no no-storms,
\* no-impacts or alert report is emitted.
C13_InputErrorIsFatal ==
    (Terminal /\ UnrecoverableInput)
        => /\ pc = "raised"
           /\ ~Attempted("no_storms")
           /\ ~Attempted("no_impacts")
           /\ ~Attempted("map")

\* The distinct (cleaned client name, storm name) pairs of the intercept
\* rows, and the map alerts of the run handled for a pair.
InterceptPairs == { << intercepts[i].ClientName, intercepts[i].Storm_Name >> : i \in 1..Len(intercepts) }
MapAlertsFor(pair) ==
    { i \in 1..Len(sent) :
        sent[i].report = "map" /\ << sent[i].client, sent[i].storm >> = pair }

\* main returned from the alert loops.
AlertStageOver ==
    /\ pc = "done"
    /\ ~Attempted("no_storms") /\ ~Attempted("no_impacts") /\ ~Attempted("error")
    /\ intercepts # <<>>

\* C27: one forecast-map alert is attempted for each distinct (cleaned
\* client name, storm name) pair of the intercept rows and none for any
\* other pair; a failure while handling a pair does not prevent the alerts
\* of the remaining pairs; a run that ends with the no-storms or the
\* no-impacts report has no map alert.
C27_OneMapAlertPerInterceptPair ==
    /\ \A i \in 1..Len(sent) :
          sent[i].report = "map"
              => /\ << sent[i].client, sent[i].storm >> \in InterceptPairs
                 /\ Cardinality(MapAlertsFor(<< sent[i].client, sent[i].storm >>)) = 1
    /\ AlertStageOver
          => \A pair \in InterceptPairs : Cardinality(MapAlertsFor(pair)) = 1
    /\ (Attempted("no_storms") \/ Attempted("no_impacts")) => ~Attempted("map")

\* A client with two intercept rows for one storm and a second pair; the
\* first alert failed and the second was sent.
C27_Witness ==
    /\ AlertStageOver
    /\ Cardinality(InterceptPairs) >= 2
    /\ Len(intercepts) > Cardinality(InterceptPairs)
    /\ \E i, j \in 1..Len(sent) :
          /\ i < j
          /\ sent[i].report = "map" /\ ~sent[i].ok
          /\ sent[j].report = "map" /\ sent[j].ok

\* Seconds from the start of day 0.
SecondsOf(t) == ((t.day * 24 + t.hour) * 60 + t.minute) * 60 + t.second

\* C28: for every input time the adjusted timestamp has the same date, the
\* greatest hour of {0, 6, 12, 18} that is <= the input's hour, and zero
\* minutes and seconds; it is never later than the input and less than 6
\* hours earlier; the branch that falls back to 18:00 of the previous day is
\* never taken.
C28_RoundsDownToForecastHour ==
    adjusted # <<>>
        => LET t == clock[1]
               a == adjusted[1].timestamp
           IN  /\ a.day = t.day
               /\ a.hour \in {0, 6, 12, 18}
               /\ a.hour <= t.hour
               /\ \A h \in {0, 6, 12, 18} : h <= t.hour => h <= a.hour
               /\ a.minute = 0 /\ a.second = 0
               /\ SecondsOf(a) <= SecondsOf(t)
               /\ SecondsOf(t) - SecondsOf(a) < 6 * 3600
               /\ ~adjusted[1].fallback

\* 05:59:59 is adjusted to 00:00:00 of the same day.
C28_Witness ==
    /\ adjusted # <<>>
    /\ clock[1] = [day |-> 2, hour |-> 5, minute |-> 59, second |-> 59]
    /\ adjusted[1].timestamp = [day |-> 2, hour |-> 0, minute |-> 0, second |-> 0]

KeyOf(row) == << row.Basin, row.Storm_Number, row.Storm_Year >>

\* C29: a directory without duplicate keys stays so under any sequence of
\* download_and_update_storm_data calls; a call for an existing key changes
\* only that row's name, start date and end date; a call for a new key
\* appends one row; a call for a file with no parseable date leaves the
\* directory unchanged.
C29_UpsertKeepsKeysUnique ==
    storm_csv # <<>>
        => /\ \A i, j \in 1..Len(storm_csv[1]) :
                 KeyOf(storm_csv[1][i]) = KeyOf(storm_csv[1][j]) => i = j
           /\ last_upsert # <<>>
                 => LET before == last_upsert[1].before
                        after == storm_csv[1]
                        info == last_upsert[1].info
                        file_name == last_upsert[1].file_name
                    IN  IF info.storm_year = <<>> \/ ~last_upsert[1].downloaded
                        THEN after = before
                        ELSE LET key == << file_name.basin, file_name.storm_number,
                                           info.storm_year[1] >>
                             IN  IF \E i \in 1..Len(before) : KeyOf(before[i]) = key
                                 THEN /\ Len(after) = Len(before)
                                      /\ \A i \in 1..Len(before) :
                                            IF KeyOf(before[i]) = key
                                            THEN /\ after[i].Storm_Name = info.storm_name
                                                 /\ after[i].Storm_Start_Date = info.storm_start_date
                                                 /\ after[i].Storm_End_Date = info.storm_end_date
                                                 /\ KeyOf(after[i]) = key
                                                 /\ after[i].adeck_path = before[i].adeck_path
                                            ELSE after[i] = before[i]
                                 ELSE /\ Len(after) = Len(before) + 1
                                      /\ SubSeq(after, 1, Len(before)) = before
                                      /\ KeyOf(after[Len(after)]) = key
                                      /\ after[Len(after)].Storm_Name = info.storm_name

\* The second row of the directory is updated from a file with another name
\* than the one it was added from.
C29_Witness ==
    /\ last_upsert # <<>>
    /\ Len(last_upsert[1].before) = 2
    /\ Len(storm_csv[1]) = 2
    /\ storm_csv[1][1] = last_upsert[1].before[1]
    /\ storm_csv[1][2].Storm_Name = "Ana"
    /\ last_upsert[1].before[2].Storm_Name = "Invest"
    /\ storm_csv[1][2].adeck_path # last_upsert[1].file_name

\* C30: get_gmail_service never builds the mail service with credentials
\* that are not valid: when the stored token is missing, unreadable or
\* loads as not valid, the credentials are refreshed or replaced through
\* the consent flow before the service is built.
C30_ServiceBuiltWithValidCredentials ==
    service # <<>> => valid(service[1])

=============================================================================
